---- MODULE Spec2Model ----
(***************************************************************************)
(* Model of the text-to-SQL multi-agent pipeline (osy9757/text-to-sql):   *)
(* the LangGraph workflow of orchestrator.py, the stage handlers of       *)
(* agents/*.py and sql_execution_agent.py, and the Safety Gate of         *)
(* database_connector.py.                                                 *)
(*                                                                         *)
(* Python str values are TLA+ strings; Len, SubSeq and \o act on them as  *)
(* len, slicing and + do in Python.  None of an Optional[str] field is    *)
(* the distinguished value None; None of an Optional[<object>] field is   *)
(* the record NoneObj.  The Korean message texts of the source are       *)
(* written in English; the Korean patterns that the code matches against *)
(* error texts are written in Revised Romanization.                       *)
(***************************************************************************)
EXTENDS Integers, Sequences, FiniteSets, TLC

VARIABLES
    enable_sql_execution, \* TextToSQLOrchestrator.enable_sql_execution
    entry,                \* where the graph engine was started for this run
    pc,                   \* the node the graph engine runs next
    state,                \* the AgentState threaded through the nodes
    response,             \* the TextToSQLResponse of convert_text_to_sql
    gate,                 \* the last call of SQLValidator.validate_sql_safety
    attempt,              \* what the last SQLExecutionAgent.process call did
    fault,                \* the exception a call made by the last step raised
    invoked,              \* the number of _invoke_llm calls the last step made
    llm_reply,            \* what the _invoke_llm call of the last step returned
    graph_step,           \* the number of node steps the graph engine has taken
    tasks,                \* the coroutines that run concurrently on the event loop
    db_connection,        \* the RealDatabaseConnection object they share
    current_session_id    \* the current_session_id attribute of the orchestrator

sequential ==
    <<enable_sql_execution, entry, pc, state, response, gate, attempt, fault, invoked,
      llm_reply, graph_step>>
concurrent == <<tasks, db_connection, current_session_id>>
vars == <<sequential, concurrent>>

-----------------------------------------------------------------------------
(* Bounds of the model.                                                    *)

\* Number of text pieces concatenated into an input of the Safety Gate.
MaxPieces == 3

\* the largest row count of an execution result handed to the
\* deterministic verdict
MaxRows == 1002

-----------------------------------------------------------------------------
(* Python values.                                                          *)

None == "<None>"
NoneObj == [none |-> TRUE]

IsNoneObj(x) == "none" \in DOMAIN x

\* Python truthiness of an Optional[str].
Truthy(s) == s # None /\ s # ""

-----------------------------------------------------------------------------
(* str methods.                                                            *)

CharAt(s, i) == SubSeq(s, i, i)

Lowers == "abcdefghijklmnopqrstuvwxyz"
Uppers == "ABCDEFGHIJKLMNOPQRSTUVWXYZ"

UpperTable ==
    [c \in {CharAt(Lowers, i) : i \in 1..26} |->
        CharAt(Uppers, CHOOSE i \in 1..26 : CharAt(Lowers, i) = c)]

LowerTable ==
    [c \in {CharAt(Uppers, i) : i \in 1..26} |->
        CharAt(Lowers, CHOOSE i \in 1..26 : CharAt(Uppers, i) = c)]

UpperChar(c) == IF c \in DOMAIN UpperTable THEN UpperTable[c] ELSE c
LowerChar(c) == IF c \in DOMAIN LowerTable THEN LowerTable[c] ELSE c

RECURSIVE UpperFrom(_, _)
UpperFrom(s, i) ==
    IF i > Len(s) THEN "" ELSE UpperChar(CharAt(s, i)) \o UpperFrom(s, i + 1)

\* str.upper()
Upper(s) == UpperFrom(s, 1)

RECURSIVE LowerFrom(_, _)
LowerFrom(s, i) ==
    IF i > Len(s) THEN "" ELSE LowerChar(CharAt(s, i)) \o LowerFrom(s, i + 1)

\* str.lower()
Lower(s) == LowerFrom(s, 1)

Whitespace == {" ", "\n", "\t", "\r"}

\* str.strip()
Strip(s) ==
    LET keep == {i \in 1..Len(s) : CharAt(s, i) \notin Whitespace}
    IN  IF keep = {} THEN ""
        ELSE LET first == CHOOSE i \in keep : \A j \in keep : i <= j
                 last  == CHOOSE i \in keep : \A j \in keep : j <= i
             IN  SubSeq(s, first, last)

\* str.startswith(p), str.endswith(p)
StartsWith(s, p) == Len(p) <= Len(s) /\ SubSeq(s, 1, Len(p)) = p
EndsWith(s, p) == Len(p) <= Len(s) /\ SubSeq(s, Len(s) - Len(p) + 1, Len(s)) = p

\* sub occurs in s at index i
OccursAt(s, sub, i) ==
    /\ i >= 1
    /\ i + Len(sub) - 1 <= Len(s)
    /\ SubSeq(s, i, i + Len(sub) - 1) = sub

\* sub in s
Contains(s, sub) == \E i \in 1..(Len(s) - Len(sub) + 1) : OccursAt(s, sub, i)

\* s.count(c) for a one-character c
Count(s, c) == Cardinality({i \in 1..Len(s) : CharAt(s, i) = c})

RECURSIVE Join(_, _)
\* sep.join(xs)
Join(sep, xs) ==
    IF Len(xs) = 0 THEN ""
    ELSE IF Len(xs) = 1 THEN xs[1]
    ELSE xs[1] \o sep \o Join(sep, Tail(xs))

-----------------------------------------------------------------------------
(* re: the word boundary \b and the two patterns the code searches for.   *)

\* The ASCII characters that are not \w; every other character (letters,
\* digits, '_', letters of other scripts) is a word character.
NonWordChars ==
    Whitespace \cup
    {"(", ")", ";", "'", "-", "/", "*", ",", ".", "=", "<", ">", ":", "{",
     "}", "[", "]", "!", "?", "+", "%", "&", "|", "#", "@", "$", "^", "~"}

IsWordChar(c) == c \notin NonWordChars

\* re.search(r'\b' + re.escape(keyword) + r'\b', s) finds a match at i;
\* every keyword begins and ends with a letter.
WordMatchAt(keyword, s, i) ==
    /\ OccursAt(s, keyword, i)
    /\ (i = 1 \/ ~IsWordChar(CharAt(s, i - 1)))
    /\ (i + Len(keyword) - 1 = Len(s) \/ ~IsWordChar(CharAt(s, i + Len(keyword))))

WordSearch(keyword, s) ==
    \E i \in 1..(Len(s) - Len(keyword) + 1) : WordMatchAt(keyword, s, i)

\* Index of the first ')' of s at or after i, 0 if there is none.
NextClose(s, i) ==
    LET at == {j \in i..Len(s) : CharAt(s, j) = ")"}
    IN  IF at = {} THEN 0 ELSE CHOOSE j \in at : \A k \in at : j <= k

RECURSIVE FindAllParenFrom(_, _)
FindAllParenFrom(s, i) ==
    IF i > Len(s) THEN <<>>
    ELSE IF CharAt(s, i) # "(" THEN FindAllParenFrom(s, i + 1)
    ELSE LET j == NextClose(s, i + 1)
         IN  IF j = 0 THEN <<>>
             ELSE IF j = i + 1 THEN FindAllParenFrom(s, i + 1)
             ELSE <<SubSeq(s, i + 1, j - 1)>> \o FindAllParenFrom(s, j + 1)

\* re.findall(r'\(([^)]+)\)', s)
FindAllParen(s) == FindAllParenFrom(s, 1)

-----------------------------------------------------------------------------
(* SQLValidator.validate_sql_safety (database_connector.py).               *)

forbidden_keywords ==
    <<"INSERT", "UPDATE", "DELETE", "DROP", "CREATE", "ALTER",
      "TRUNCATE", "REPLACE", "MERGE", "GRANT", "REVOKE",
      "EXEC", "EXECUTE", "CALL", "LOAD", "OUTFILE", "DUMPFILE",
      "INTO OUTFILE", "INTO DUMPFILE">>

ErrSelectOnly == "only SELECT queries are allowed."
ErrKeyword(keyword) == "forbidden keyword present: " \o keyword
ErrSubqueryKeyword(keyword) == "forbidden keyword present in subquery: " \o keyword
ErrComment == "comments are not allowed."
ErrMultiQuery == "multiple queries are not allowed."

RECURSIVE KeywordErrorsFrom(_, _)
\* step 2: one error per forbidden keyword found as a whole word
KeywordErrorsFrom(sql_upper, k) ==
    IF k > Len(forbidden_keywords) THEN <<>>
    ELSE (IF WordSearch(forbidden_keywords[k], sql_upper)
          THEN <<ErrKeyword(forbidden_keywords[k])>> ELSE <<>>)
         \o KeywordErrorsFrom(sql_upper, k + 1)

RECURSIVE SubqueryKeywordErrorsFrom(_, _)
SubqueryKeywordErrorsFrom(subquery, k) ==
    IF k > Len(forbidden_keywords) THEN <<>>
    ELSE (IF WordSearch(forbidden_keywords[k], subquery)
          THEN <<ErrSubqueryKeyword(forbidden_keywords[k])>> ELSE <<>>)
         \o SubqueryKeywordErrorsFrom(subquery, k + 1)

RECURSIVE SubqueryErrorsFrom(_, _)
\* step 3: the same search inside every parenthesized span
SubqueryErrorsFrom(subqueries, n) ==
    IF n > Len(subqueries) THEN <<>>
    ELSE SubqueryKeywordErrorsFrom(subqueries[n], 1)
         \o SubqueryErrorsFrom(subqueries, n + 1)

\* step 4: comment markers in the text as given
HasCommentMarker(sql) ==
    Contains(sql, "--") \/ Contains(sql, "/*") \/ Contains(sql, "*/")

\* step 5: more than one ';' in the text as given
TooManyTerminators_mut(sql) == Count(sql, ";") > 2
TooManyTerminators(sql) == Count(sql, ";") > 1

validate_sql_safety(sql) ==
    LET sql_upper == Strip(Upper(sql))
    IN  IF ~StartsWith(sql_upper, "SELECT")
        THEN [is_safe |-> FALSE, errors |-> <<ErrSelectOnly>>]
        ELSE LET errors ==
                     KeywordErrorsFrom(sql_upper, 1)
                     \o SubqueryErrorsFrom(FindAllParen(sql_upper), 1)
                     \o (IF HasCommentMarker(sql) THEN <<ErrComment>> ELSE <<>>)
                     \o (IF TooManyTerminators(sql) THEN <<ErrMultiQuery>> ELSE <<>>)
             IN  [is_safe |-> Len(errors) = 0, errors |-> errors]

-----------------------------------------------------------------------------
(* The model's reply and the brace scan every stage applies to it.         *)
(*                                                                         *)
(* A reply of the language model is a record: raises (the call raised),   *)
(* content (response.content) and json, the value json.loads gives for    *)
(* the span from the first '{' to the last '}' of content: a record, or   *)
(* JsonError when the span is no JSON document.                           *)

JsonError == [json_error |-> TRUE]
IsJsonError(x) == "json_error" \in DOMAIN x

\* dict.get(key, default)
Get(d, key, default) == IF key \in DOMAIN d THEN d[key] ELSE default

\* str.find(c), str.rfind(c) for a one-character c: 0-based index or -1
Find(s, c) ==
    LET at == {i \in 1..Len(s) : CharAt(s, i) = c}
    IN  IF at = {} THEN -1 ELSE (CHOOSE i \in at : \A j \in at : i <= j) - 1
RFind(s, c) ==
    LET at == {i \in 1..Len(s) : CharAt(s, i) = c}
    IN  IF at = {} THEN -1 ELSE (CHOOSE i \in at : \A j \in at : j <= i) - 1

\* s[a:b] for 0 <= a, 0 <= b
Slice(s, a, b) == IF b <= a THEN "" ELSE SubSeq(s, a + 1, IF b > Len(s) THEN Len(s) ELSE b)

ExcNoJson == "No valid JSON found in response"
ExcJsonDecode == "Expecting value: line 1 column 1 (char 0)"

\* json_start = response.find('{'); json_end = response.rfind('}') + 1;
\* if json_start != -1 and json_end != -1: json.loads(response[json_start:json_end])
\* else: raise ValueError.  Gives [ok, data] or [ok, exc].
ExtractJson(reply) ==
    LET json_start == Find(reply.content, "{")
        json_end   == RFind(reply.content, "}") + 1
    IN  IF json_start # -1 /\ json_end # -1
        THEN LET json_str == Slice(reply.content, json_start, json_end)
             IN  IF json_str = "" \/ IsJsonError(reply.json)
                 THEN [ok |-> FALSE, branch |-> "loads", exc |-> ExcJsonDecode]
                 ELSE [ok |-> TRUE, branch |-> "loads", data |-> reply.json]
        ELSE [ok |-> FALSE, branch |-> "else", exc |-> ExcNoJson]

ExcLLM == "model call failed"

Reply(content, json) ==
    [raises |-> FALSE, content |-> content, json |-> json, sql_block |-> None]
ReplyBlock(content, sql_block) ==
    [raises |-> FALSE, content |-> content, json |-> JsonError, sql_block |-> sql_block]
Raising ==
    [raises |-> TRUE, content |-> "", json |-> JsonError, sql_block |-> None]


-----------------------------------------------------------------------------
(* QualityValidatorAgent helpers (agents/quality_validator.py).            *)

ErrNoKeyword == "no SQL keyword (SELECT, INSERT, UPDATE, DELETE)."
ErrParens == "parentheses are not balanced."
ErrQuotes == "single quotes are not paired."
ErrSemicolon == "the SQL query must end with a semicolon (;)."

\* if sql.count('(') != sql.count(')')
UnbalancedParens_mut(sql) == Count(sql, "(") > Count(sql, ")")
UnbalancedParens(sql) == Count(sql, "(") # Count(sql, ")")

_basic_syntax_check(sql) ==
    LET sql_upper == Upper(sql)
    IN  (IF ~(\E keyword \in {"SELECT", "INSERT", "UPDATE", "DELETE"} :
                Contains(sql_upper, keyword))
         THEN <<ErrNoKeyword>> ELSE <<>>)
        \o (IF UnbalancedParens(sql) THEN <<ErrParens>> ELSE <<>>)
        \o (IF Count(sql, "'") % 2 # 0 THEN <<ErrQuotes>> ELSE <<>>)
        \o (IF ~EndsWith(Strip(sql), ";") THEN <<ErrSemicolon>> ELSE <<>>)

\* Physical table names of the schema file the agents load (schema_data).
valid_tables == {"tb_user", "tb_transaction"}

\* End of the run of \w characters of s that starts at i (i - 1 if none).
RECURSIVE WordRunEnd(_, _)
WordRunEnd(s, i) ==
    IF i <= Len(s) /\ IsWordChar(CharAt(s, i)) THEN WordRunEnd(s, i + 1) ELSE i - 1

RECURSIVE FindAllTablesFrom(_, _)
FindAllTablesFrom(s, i) ==
    IF i > Len(s) THEN <<>>
    ELSE IF /\ OccursAt(s, "tb_", i)
            /\ (i = 1 \/ ~IsWordChar(CharAt(s, i - 1)))
            /\ WordRunEnd(s, i + 3) >= i + 3
         THEN <<SubSeq(s, i, WordRunEnd(s, i + 3))>>
              \o FindAllTablesFrom(s, WordRunEnd(s, i + 3) + 1)
         ELSE FindAllTablesFrom(s, i + 1)

WarnNoTable(table) == "table '" \o table \o "' does not exist in the schema."

RECURSIVE TableWarningsFrom(_, _)
TableWarningsFrom(referenced_tables, n) ==
    IF n > Len(referenced_tables) THEN <<>>
    ELSE (IF referenced_tables[n] \notin valid_tables
          THEN <<WarnNoTable(referenced_tables[n])>> ELSE <<>>)
         \o TableWarningsFrom(referenced_tables, n + 1)

\* re.findall(r'\b(tb_\w+)\b', sql.lower()), one warning per unknown table
_check_table_column_references(sql) ==
    TableWarningsFrom(FindAllTablesFrom(Lower(sql), 1), 1)

-----------------------------------------------------------------------------
(* models.py: ProcessingStep and AgentState.                               *)

SCHEMA_ANALYSIS == "schema_analysis"
QUERY_PLANNING == "query_planning"
SQL_DEVELOPMENT == "sql_development"
QUALITY_VALIDATION == "quality_validation"
SQL_EXECUTION == "sql_execution"
COMPLETED == "completed"
ERROR == "error"

ProcessingStep ==
    {SCHEMA_ANALYSIS, QUERY_PLANNING, SQL_DEVELOPMENT, QUALITY_VALIDATION,
     SQL_EXECUTION, COMPLETED, ERROR}

\* AgentState(user_query=..., current_step=SCHEMA_ANALYSIS) with its defaults
InitialState ==
    [current_step         |-> SCHEMA_ANALYSIS,
     processing_history   |-> <<>>,
     schema_analysis      |-> NoneObj,
     query_plan           |-> NoneObj,
     sql_result           |-> NoneObj,
     validation_result    |-> NoneObj,
     sql_execution_result |-> NoneObj,
     final_sql            |-> None,
     explanation          |-> None,
     execution_data       |-> NoneObj,
     error_message        |-> None,
     agent_interactions   |-> <<>>,
     retry_count          |-> 0]

\* BaseAgent._log_interaction: one entry, stamped with the stage on entry
_log_interaction(st, agent) ==
    [st EXCEPT !.agent_interactions =
        Append(@, [agent |-> agent, step |-> st.current_step])]

\* the except Exception branch that closes every agents/*.py process
StageException_mut(st, error_prefix, history_prefix, exc) ==
    [st EXCEPT !.current_step = ERROR,
               !.error_message = error_prefix,
               !.processing_history = Append(@, history_prefix)]
StageException(st, error_prefix, history_prefix, exc) ==
    [st EXCEPT !.current_step = ERROR,
               !.error_message = error_prefix \o exc,
               !.processing_history = Append(@, history_prefix \o exc)]

-----------------------------------------------------------------------------
(* SchemaAnalystAgent.process (agents/schema_analyst.py).                  *)

schema_analyst_process(st, reply) ==
    IF reply.raises
    THEN StageException(st, "error during schema analysis: ",
                        "schema analysis failed: ", ExcLLM)
    ELSE LET logged == _log_interaction(st, "schema_analyst")
             parsed == ExtractJson(reply)
         IN  IF parsed.ok
             THEN [logged EXCEPT
                     !.schema_analysis =
                         [relevant_tables |-> Get(parsed.data, "relevant_tables", <<>>),
                          analysis_notes  |-> Get(parsed.data, "analysis_notes", "")],
                     !.current_step = QUERY_PLANNING,
                     !.processing_history = Append(@, "schema analysis done")]
             ELSE [logged EXCEPT
                     !.schema_analysis =
                         [relevant_tables |-> <<>>,
                          analysis_notes  |-> "schema analysis parse error: " \o parsed.exc],
                     !.current_step = ERROR,
                     !.error_message = "schema analysis result parse failed: " \o parsed.exc]

-----------------------------------------------------------------------------
(* QueryPlannerAgent.process (agents/query_planner.py).                    *)

query_planner_process(st, reply) ==
    IF IsNoneObj(st.schema_analysis)
    THEN [st EXCEPT !.current_step = ERROR,
                    !.error_message = "no schema analysis result, cannot plan the query."]
    ELSE IF reply.raises
    THEN StageException(st, "error during query planning: ",
                        "query planning failed: ", ExcLLM)
    ELSE LET logged == _log_interaction(st, "query_planner")
             parsed == ExtractJson(reply)
         IN  IF parsed.ok
             THEN [logged EXCEPT
                     !.query_plan =
                         [query_steps      |-> Get(parsed.data, "query_steps", <<>>),
                          complexity_level |-> Get(parsed.data, "complexity_level", "unknown")],
                     !.current_step = SQL_DEVELOPMENT,
                     !.processing_history = Append(@, "query plan done")]
             ELSE [logged EXCEPT
                     !.query_plan =
                         [query_steps      |-> <<"query plan parse error: " \o parsed.exc>>,
                          complexity_level |-> "unknown"],
                     !.current_step = ERROR,
                     !.error_message = "query plan parse failed: " \o parsed.exc]

-----------------------------------------------------------------------------
(* SQLDeveloperAgent.process (agents/sql_developer.py).                    *)

RECURSIVE SplitFrom(_, _, _)
SplitFrom(s, i, start) ==
    IF i > Len(s) THEN <<Slice(s, start - 1, Len(s))>>
    ELSE IF CharAt(s, i) = "\n"
         THEN <<Slice(s, start - 1, i - 1)>> \o SplitFrom(s, i + 1, i + 1)
         ELSE SplitFrom(s, i + 1, start)

\* s.split('\n')
SplitLines(s) == SplitFrom(s, 1, 1)

LineHasKeyword(line) ==
    \E keyword \in {"SELECT", "WITH", "INSERT", "UPDATE", "DELETE"} :
        Contains(Upper(line), keyword)

RECURSIVE ScanLines(_, _, _)
\* the fallback loop over the reply's lines: sql_lines
ScanLines(lines, n, in_sql) ==
    IF n > Len(lines) THEN <<>>
    ELSE LET line == Strip(lines[n])
             now  == in_sql \/ LineHasKeyword(line)
         IN  IF ~now THEN ScanLines(lines, n + 1, FALSE)
             ELSE IF EndsWith(line, ";") THEN <<line>>
             ELSE <<line>> \o ScanLines(lines, n + 1, TRUE)

fallback_sql(content) == Join("\n", ScanLines(SplitLines(content), 1, FALSE))

ExcEmptySql == "Generated SQL query is empty"

sql_developer_fallback_mut(logged, content, exc) ==
    [logged EXCEPT
        !.sql_result =
            [sql_query   |-> fallback_sql(content),
             explanation |-> "fallback extraction after SQL parse error: " \o exc],
        !.current_step = QUALITY_VALIDATION]
\* the except (json.JSONDecodeError, ValueError) branch
sql_developer_fallback(logged, content, exc) ==
    LET sql == fallback_sql(content)
        with_result ==
            [logged EXCEPT !.sql_result =
                [sql_query   |-> sql,
                 explanation |-> "fallback extraction after SQL parse error: " \o exc]]
    IN  IF sql = ""
        THEN [with_result EXCEPT
                !.current_step = ERROR,
                !.error_message = "SQL generation parse failed: " \o exc]
        ELSE [with_result EXCEPT
                !.current_step = QUALITY_VALIDATION,
                !.processing_history = Append(@, "SQL extracted (parse error recovered)")]

sql_developer_process(st, reply) ==
    IF IsNoneObj(st.query_plan) \/ IsNoneObj(st.schema_analysis)
    THEN [st EXCEPT !.current_step = ERROR,
                    !.error_message = "no query plan or schema analysis, cannot generate SQL."]
    ELSE IF reply.raises
    THEN StageException(st, "error during SQL generation: ",
                        "SQL generation failed: ", ExcLLM)
    ELSE LET logged == _log_interaction(st, "sql_developer")
             parsed == ExtractJson(reply)
         IN  IF ~parsed.ok
             THEN sql_developer_fallback(logged, reply.content, parsed.exc)
             ELSE IF Strip(Get(parsed.data, "sql_query", "")) = ""
             THEN sql_developer_fallback(logged, reply.content, ExcEmptySql)
             ELSE [logged EXCEPT
                     !.sql_result =
                         [sql_query   |-> Get(parsed.data, "sql_query", ""),
                          explanation |-> Get(parsed.data, "explanation", "")],
                     !.current_step = QUALITY_VALIDATION,
                     !.processing_history = Append(@, "SQL generated")]

-----------------------------------------------------------------------------
(* QualityValidatorAgent.process (agents/quality_validator.py).            *)

\* d[k] = v on a dict whose keys may be absent
SetKey(d, k, v) == [x \in DOMAIN d \cup {k} |-> IF x = k THEN v ELSE d[x]]

\* "corrected SQL re-check": the re-run of the structural check on the
\* correction, which replaces the defect list and the validity flag only
\* when the correction differs and has strictly fewer defects
RecheckCorrection(validation_data, original_sql, syntax_errors) ==
    LET corrected_sql == Get(validation_data, "final_sql", original_sql)
        corrected_errors == _basic_syntax_check(corrected_sql)
    IN  IF corrected_sql # original_sql /\ Len(corrected_errors) < Len(syntax_errors)
        THEN SetKey(SetKey(validation_data, "syntax_errors", corrected_errors),
                    "is_valid", Len(corrected_errors) = 0)
        ELSE validation_data

CorrectionData_mut(reply, original_sql, syntax_errors, logic_warnings) ==
    [is_valid       |-> FALSE,
     syntax_errors  |-> <<>>,
     logic_warnings |-> logic_warnings,
     final_sql      |-> original_sql]
\* The validation_data dict of the correction round.  reply.sql_block is the
\* stripped group that the fenced-block pattern (three backticks, 'sql', the
\* block, three backticks) captures in the reply, None when it finds none.
CorrectionData(reply, original_sql, syntax_errors, logic_warnings) ==
    LET parsed == ExtractJson(reply)
    IN  IF parsed.ok
        THEN RecheckCorrection(parsed.data, original_sql, syntax_errors)
        ELSE IF parsed.branch = "else"
        THEN RecheckCorrection(
                 [is_valid       |-> Len(syntax_errors) = 0,
                  syntax_errors  |-> syntax_errors,
                  logic_warnings |-> logic_warnings,
                  final_sql      |-> IF reply.sql_block # None
                                     THEN reply.sql_block ELSE original_sql],
                 original_sql, syntax_errors)
        ELSE [is_valid       |-> FALSE,
              syntax_errors  |-> syntax_errors,
              logic_warnings |-> logic_warnings,
              final_sql      |-> original_sql]

\* ValidationResult(...) and the state update that follows it
ApplyValidation(st, validation_data, original_sql) ==
    LET validation_result ==
            [is_valid       |-> Get(validation_data, "is_valid", FALSE),
             syntax_errors  |-> Get(validation_data, "syntax_errors", <<>>),
             logic_warnings |-> Get(validation_data, "logic_warnings", <<>>),
             final_sql      |-> Get(validation_data, "final_sql", original_sql)]
        with_result == [st EXCEPT !.validation_result = validation_result]
    IN  IF validation_result.is_valid
        THEN [with_result EXCEPT
                !.final_sql = validation_result.final_sql,
                !.explanation = st.sql_result.explanation,
                !.current_step = COMPLETED,
                !.processing_history = Append(@, "quality validation done: SQL is valid")]
        ELSE [with_result EXCEPT
                !.current_step = ERROR,
                !.error_message =
                    "SQL validation failed: " \o Join(", ", validation_result.syntax_errors),
                !.processing_history = Append(@, "quality validation failed")]

\* whether this pass of the validator invokes the model: if syntax_errors
ValidatorCallsModel_mut(st) ==
    /\ ~IsNoneObj(st.sql_result)
    /\ st.sql_result.sql_query # ""
ValidatorCallsModel(st) ==
    /\ ~IsNoneObj(st.sql_result)
    /\ st.sql_result.sql_query # ""
    /\ Len(_basic_syntax_check(st.sql_result.sql_query)) > 0

quality_validator_process(st, reply) ==
    IF IsNoneObj(st.sql_result) \/ st.sql_result.sql_query = ""
    THEN [st EXCEPT !.current_step = ERROR,
                    !.error_message = "no SQL query to validate."]
    ELSE LET original_sql   == st.sql_result.sql_query
             syntax_errors  == _basic_syntax_check(original_sql)
             logic_warnings == _check_table_column_references(original_sql)
         IN  IF ValidatorCallsModel(st)
             THEN IF reply.raises
                  THEN StageException(st, "error during quality validation: ",
                                      "quality validation failed: ", ExcLLM)
                  ELSE ApplyValidation(
                           _log_interaction(st, "quality_validator"),
                           CorrectionData(reply, original_sql, syntax_errors, logic_warnings),
                           original_sql)
             ELSE ApplyValidation(
                      st,
                      [is_valid       |-> TRUE,
                       syntax_errors  |-> <<>>,
                       logic_warnings |-> logic_warnings,
                       final_sql      |-> original_sql],
                      original_sql)

-----------------------------------------------------------------------------
(* SQLExecutionAgent (sql_execution_agent.py).                             *)

\* "maximum 20 retries"
MaxRetries == 20

\* the list of rows an adapter returns, n rows long
Rows(n) == [len |-> n]

connection_keywords ==
    {"db yeongyeol silpae", "connection error", "ssh", "paramiko", "tunnel",
     "connection failed", "yeongyeol silpae", "yeongyeol oryu", "has no attribute"}

\* execution_result.get("error") or ""
ErrorText(execution_result) ==
    IF execution_result.error = None THEN "" ELSE execution_result.error

is_connection_error(error_message) ==
    \E keyword \in connection_keywords : Contains(Lower(error_message), keyword)

\* if row_count == 0
NoRows_mut(row_count) == row_count < 0
NoRows(row_count) == row_count = 0

\* elif row_count > 1000
TooManyRows_mut(row_count) == row_count >= 1000
TooManyRows(row_count) == row_count > 1000

ReasonExecutionError == "SQL execution error"
ReasonNoResults == "no results"
ReasonTooManyResults == "too many results"

_basic_result_analysis(execution_result) ==
    IF ~execution_result.success
    THEN [is_valid |-> FALSE, needs_retry |-> TRUE, retry_reason |-> ReasonExecutionError]
    ELSE IF NoRows(execution_result.row_count)
    THEN [is_valid |-> FALSE, needs_retry |-> TRUE, retry_reason |-> ReasonNoResults]
    ELSE IF TooManyRows(execution_result.row_count)
    THEN [is_valid |-> FALSE, needs_retry |-> TRUE, retry_reason |-> ReasonTooManyResults]
    ELSE [is_valid |-> TRUE, needs_retry |-> FALSE, retry_reason |-> ""]

_analyze_execution_result_mut(execution_result, reply) ==
    IF reply.raises THEN [is_valid |-> FALSE, needs_retry |-> FALSE, retry_reason |-> ExcLLM]
    ELSE LET parsed == ExtractJson(reply)
         IN  IF parsed.ok THEN parsed.data
             ELSE _basic_result_analysis(execution_result)
\* the Result Judge: the model's verdict, or the deterministic one when the
\* call raises or the reply holds no parseable object
_analyze_execution_result(execution_result, reply) ==
    IF reply.raises THEN _basic_result_analysis(execution_result)
    ELSE LET parsed == ExtractJson(reply)
         IN  IF parsed.ok THEN parsed.data
             ELSE _basic_result_analysis(execution_result)

MsgNoSql == "no SQL to execute."
MsgBudget == "maximum number of retries exceeded (20): try a more specific question."
MsgInvalidResult == "the SQL execution result is not valid."
MsgUnsafe(safety_errors) == "unsafe SQL: " \o Join(", ", safety_errors)
MsgConnection(error_message) == "database connection failed: " \o error_message
MsgRetry(retry_count, analysis) ==
    "SQL regeneration needed (" \o ToString(retry_count) \o "/20): "
    \o Get(analysis, "retry_reason", "result validation failed")

\* 1. the Safety Gate rejected the text: nothing is executed
ExecGateRejected(st, safety_errors) ==
    [st EXCEPT !.current_step = ERROR,
               !.error_message = MsgUnsafe(safety_errors)]

\* 3. connection error: no retry, no judge
ExecConnectionError_mut(st, sql_query, error_message) ==
    [st EXCEPT !.retry_count = @ + 1,
               !.current_step = SQL_DEVELOPMENT,
               !.error_message = MsgConnection(error_message)]
ExecConnectionError(st, sql_query, error_message) ==
    [st EXCEPT
        !.sql_execution_result =
            [sql_query         |-> sql_query,
             execution_success |-> FALSE,
             result_data       |-> NoneObj,
             row_count         |-> 0,
             error_message     |-> error_message,
             analysis          |-> [is_valid |-> FALSE, needs_retry |-> FALSE,
                                    retry_reason |-> "DB connection error"]],
        !.current_step = ERROR,
        !.error_message = MsgConnection(error_message),
        !.processing_history = Append(@, "SQL not executable: DB connection error")]

\* analysis.get("needs_retry", False) and state.retry_count < 20
RetryAllowed_mut(analysis, retry_count) ==
    Get(analysis, "needs_retry", FALSE) /\ retry_count <= MaxRetries
RetryAllowed(analysis, retry_count) ==
    Get(analysis, "needs_retry", FALSE) /\ retry_count < MaxRetries

ExecOutcome_mut_accept(st, sql_query, execution_result, analysis) ==
    LET with_result ==
            [st EXCEPT !.sql_execution_result =
                [sql_query         |-> sql_query,
                 execution_success |-> execution_result.success,
                 result_data       |-> execution_result.data,
                 row_count         |-> execution_result.row_count,
                 error_message     |-> execution_result.error,
                 analysis          |-> analysis]]
    IN  IF /\ execution_result.success
           /\ Get(analysis, "is_valid", FALSE)
           /\ ~Get(analysis, "needs_retry", FALSE)
        THEN [with_result EXCEPT
                !.current_step = COMPLETED,
                !.final_sql = sql_query,
                !.execution_data = execution_result.data]
        ELSE IF RetryAllowed(analysis, st.retry_count)
        THEN [with_result EXCEPT
                !.retry_count = @ + 1,
                !.current_step = SQL_DEVELOPMENT,
                !.error_message = MsgRetry(st.retry_count + 1, analysis)]
        ELSE [with_result EXCEPT
                !.current_step = ERROR,
                !.error_message = MsgInvalidResult]
ExecOutcome_mut(st, sql_query, execution_result, analysis) ==
    LET with_result ==
            [st EXCEPT !.sql_execution_result =
                [sql_query         |-> sql_query,
                 execution_success |-> execution_result.success,
                 result_data       |-> execution_result.data,
                 row_count         |-> execution_result.row_count,
                 error_message     |-> execution_result.error,
                 analysis          |-> analysis]]
    IN  IF execution_result.success /\ Get(analysis, "is_valid", FALSE)
        THEN [with_result EXCEPT
                !.current_step = COMPLETED,
                !.final_sql = sql_query,
                !.execution_data = execution_result.data]
        ELSE IF RetryAllowed(analysis, st.retry_count)
        THEN [with_result EXCEPT
                !.current_step = SQL_DEVELOPMENT,
                !.error_message = MsgRetry(st.retry_count + 1, analysis)]
        ELSE [with_result EXCEPT
                !.retry_count = 0,
                !.current_step = ERROR,
                !.error_message = MsgInvalidResult]
\* 5.-6. the result object and the state update
ExecOutcome(st, sql_query, execution_result, analysis) ==
    LET with_result ==
            [st EXCEPT !.sql_execution_result =
                [sql_query         |-> sql_query,
                 execution_success |-> execution_result.success,
                 result_data       |-> execution_result.data,
                 row_count         |-> execution_result.row_count,
                 error_message     |-> execution_result.error,
                 analysis          |-> analysis]]
    IN  IF execution_result.success /\ Get(analysis, "is_valid", FALSE)
        THEN [with_result EXCEPT
                !.current_step = COMPLETED,
                !.final_sql = sql_query,
                !.execution_data = execution_result.data,
                !.processing_history = Append(@, "SQL execution succeeded")]
        ELSE IF RetryAllowed(analysis, st.retry_count)
        THEN [with_result EXCEPT
                !.retry_count = @ + 1,
                !.current_step = SQL_DEVELOPMENT,
                !.error_message = MsgRetry(st.retry_count + 1, analysis),
                !.processing_history = Append(@, "regeneration requested")]
        ELSE [with_result EXCEPT
                !.current_step = ERROR,
                !.error_message =
                    IF st.retry_count >= MaxRetries THEN MsgBudget
                    ELSE IF Truthy(execution_result.error) THEN execution_result.error
                    ELSE MsgInvalidResult,
                !.processing_history = Append(@, "SQL execution failed")]

\* What one call of process did: the text handed to the Safety Gate and
\* its answer, the text handed to db_connection.execute_query, whether the
\* result was classified as a connection error, whether the Result Judge
\* (_analyze_execution_result) ran, and retry_count on entry.
\* is_safe, safety_errors = ...; if not is_safe: return
GatePasses_mut(safety) == TRUE
GatePasses(safety) == safety.is_safe

NoAttempt ==
    [called |-> FALSE, retry_before |-> 0, gate_sql |-> None, gate_safe |-> FALSE,
     executed |-> None, result |-> NoneObj, raised |-> FALSE,
     conn_error |-> FALSE, judged |-> FALSE, analysis |-> NoneObj]

NoGate == [sql |-> None, result |-> NoneObj]

ExcAdapter == "adapter failure"

\* SQLExecutionAgent.process: [state, attempt, gate]
sql_executor_process(st, adapter, judge_reply) ==
    LET entered == [NoAttempt EXCEPT !.called = TRUE, !.retry_before = st.retry_count]
    IN  IF IsNoneObj(st.validation_result) \/ ~Truthy(st.validation_result.final_sql)
        THEN [state   |-> [st EXCEPT !.current_step = ERROR, !.error_message = MsgNoSql],
              attempt |-> entered,
              gate    |-> NoGate]
        ELSE
        LET sql_query == st.validation_result.final_sql
            safety    == validate_sql_safety(sql_query)
            gated     == [entered EXCEPT !.gate_sql = sql_query,
                                         !.gate_safe = safety.is_safe]
            checked   == [sql |-> sql_query, result |-> safety]
        IN  IF ~GatePasses(safety)
            THEN [state   |-> ExecGateRejected(st, safety.errors),
                  attempt |-> gated,
                  gate    |-> checked]
            ELSE IF adapter.raises
            THEN [state   |-> StageException(st, "system error during SQL execution: ",
                                             "SQL execution agent error: ", ExcAdapter),
                  attempt |-> [gated EXCEPT !.executed = sql_query, !.raised = TRUE],
                  gate    |-> checked]
            ELSE
            LET ran == [gated EXCEPT !.executed = sql_query, !.result = adapter]
            IN  IF is_connection_error(ErrorText(adapter))
                THEN [state   |-> ExecConnectionError(st, sql_query, ErrorText(adapter)),
                      attempt |-> [ran EXCEPT !.conn_error = TRUE],
                      gate    |-> checked]
                ELSE
                LET analysis == _analyze_execution_result(adapter, judge_reply)
                IN  [state   |-> ExecOutcome(st, sql_query, adapter, analysis),
                     attempt |-> [ran EXCEPT !.judged = TRUE, !.analysis = analysis],
                     gate    |-> checked]

-----------------------------------------------------------------------------
(* TextToSQLOrchestrator (orchestrator.py): the routers of the graph, the  *)
(* error handler and the response of convert_text_to_sql.                   *)

route_after_schema_analysis(st) ==
    IF st.current_step = QUERY_PLANNING THEN "query_planner" ELSE "error_handler"

route_after_query_planning_mut(st) == "sql_developer"
route_after_query_planning(st) ==
    IF st.current_step = SQL_DEVELOPMENT THEN "sql_developer" ELSE "error_handler"

route_after_sql_development(st) ==
    IF st.current_step = QUALITY_VALIDATION THEN "quality_validator" ELSE "error_handler"

route_after_validation(st, enabled) ==
    IF enabled
    THEN IF st.current_step = SQL_EXECUTION THEN "sql_executor" ELSE "error_handler"
    ELSE IF st.current_step = COMPLETED THEN "END" ELSE "error_handler"

route_after_execution(st) ==
    IF st.current_step = COMPLETED THEN "END"
    ELSE IF st.current_step = SQL_DEVELOPMENT THEN "sql_developer"
    ELSE "error_handler"

error_handler_mut(st) == [InitialState EXCEPT !.current_step = ERROR]
error_handler(st) == [st EXCEPT !.current_step = ERROR]

MsgUnknown == "an unknown error occurred during processing."

\* the response with the test on final_sql left out
BuildResponse_mut(final_state) ==
    IF final_state.current_step = COMPLETED
    THEN [success        |-> TRUE,
          sql_query      |-> final_state.final_sql,
          explanation    |-> final_state.explanation,
          execution_data |-> Rows(0),
          error_message  |-> None,
          failed_at_step |-> None,
          exception      |-> None]
    ELSE [success        |-> FALSE,
          sql_query      |-> None,
          explanation    |-> None,
          execution_data |-> NoneObj,
          error_message  |-> final_state.error_message,
          failed_at_step |-> final_state.current_step,
          exception      |-> None]

\* the response built from the final state
BuildResponse(final_state) ==
    IF final_state.current_step = COMPLETED /\ Truthy(final_state.final_sql)
    THEN [success        |-> TRUE,
          sql_query      |-> final_state.final_sql,
          explanation    |-> final_state.explanation,
          execution_data |-> IF ~IsNoneObj(final_state.execution_data)
                                /\ final_state.execution_data.len > 0
                             THEN final_state.execution_data ELSE Rows(0),
          error_message  |-> None,
          failed_at_step |-> None,
          exception      |-> None]
    ELSE [success        |-> FALSE,
          sql_query      |-> None,
          explanation    |-> None,
          execution_data |-> NoneObj,
          error_message  |-> IF Truthy(final_state.error_message)
                             THEN final_state.error_message ELSE MsgUnknown,
          failed_at_step |-> final_state.current_step,
          exception      |-> None]

\* an exception that escapes workflow.ainvoke or the conversion of its result
ExcGraph == "graph failure"

\* except Exception as e: the response of the outer handler
ExceptionResponse(e) ==
    [success        |-> FALSE,
     sql_query      |-> None,
     explanation    |-> None,
     execution_data |-> NoneObj,
     error_message  |-> "a system error occurred: " \o e,
     failed_at_step |-> None,
     exception      |-> e]

-----------------------------------------------------------------------------
(* What the collaborators can answer: the replies of the language model,  *)
(* the results of the database adapter, the SQL texts.                     *)


SqlCount == "SELECT COUNT(*) AS n FROM tb_user WHERE status = 'active';"
SqlNoTerminator == "SELECT id FROM tb_user"
SqlOpenParen == "SELECT id FROM (tb_user"
SqlDelete == "DELETE FROM tb_user;"
SqlDropAfter == "SELECT 1; DROP TABLE tb_user;"
SqlGhostTable == "SELECT id FROM tb_ghost;"
SqlTwoSelects == "SELECT 1; SELECT 2"

SchemaReplies ==
    {Raising,
     Reply("I could not find any table.", JsonError),
     Reply("{ \"relevant_tables\": [", JsonError),
     Reply("{\"relevant_tables\": [\"tb_user\"]}",
           [relevant_tables |-> <<"tb_user">>, analysis_notes |-> "one table"]),
     Reply("{\"relevant_tables\": []}", [relevant_tables |-> <<>>])}

PlanReplies ==
    {Raising,
     Reply("no plan", JsonError),
     Reply("plan } then {", JsonError),
     Reply("{\"query_steps\": [\"scan tb_user\"]}",
           [query_steps |-> <<"scan tb_user">>, complexity_level |-> "simple"])}

DeveloperSqlTexts ==
    {SqlCount, SqlNoTerminator, SqlOpenParen, SqlDelete, SqlDropAfter, SqlGhostTable}

DeveloperReplies ==
    {Raising,
     Reply("{\"sql_query\": \"\"}", [sql_query |-> ""]),
     Reply("{\"explanation\": \"no select possible\"}",
           [explanation |-> "no select possible"]),
     Reply("Here is the query:\nSELECT id\nFROM tb_user;\nThanks", JsonError),
     Reply("Please select this one:\nselect 1;", JsonError),
     Reply("I cannot help with that.", JsonError)}
    \cup {Reply("{\"sql_query\": ...}", [sql_query |-> t, explanation |-> "explained"]) :
            t \in DeveloperSqlTexts}

ValidatorReplies ==
    {Raising,
     Reply("it looks fine to me", JsonError),
     ReplyBlock("fenced block with the corrected SQL", SqlCount),
     Reply("{ \"is_valid\": tru", JsonError),
     Reply("{corrected}", [is_valid |-> TRUE, syntax_errors |-> <<>>, final_sql |-> SqlCount]),
     Reply("{half corrected}",
           [is_valid |-> FALSE, syntax_errors |-> <<ErrSemicolon>>,
            final_sql |-> SqlNoTerminator]),
     Reply("{unchanged}", [is_valid |-> TRUE, syntax_errors |-> <<>>]),
     Reply("{worse}", [is_valid |-> TRUE, syntax_errors |-> <<>>, final_sql |-> SqlOpenParen]),
     Reply("{emptied}", [is_valid |-> TRUE, syntax_errors |-> <<>>, final_sql |-> ""])}

JudgeReplies ==
    {Raising,
     Reply("the result looks plausible", JsonError),
     Reply("{ \"is_valid\": ", JsonError),
     Reply("{valid}", [is_valid |-> TRUE, needs_retry |-> FALSE]),
     Reply("{valid, retry}", [is_valid |-> TRUE, needs_retry |-> TRUE]),
     Reply("{retry}", [is_valid |-> FALSE, needs_retry |-> TRUE,
                       retry_reason |-> "wrong columns"]),
     Reply("{give up}", [is_valid |-> FALSE, needs_retry |-> FALSE]),
     Reply("{quality only}", [result_quality |-> "poor"])}

AdapterRaises ==
    [raises |-> TRUE, success |-> FALSE, data |-> NoneObj, row_count |-> 0, error |-> None]
Succeeds(n) ==
    [raises |-> FALSE, success |-> TRUE, data |-> Rows(n), row_count |-> n, error |-> None]
Fails(error) ==
    [raises |-> FALSE, success |-> FALSE, data |-> NoneObj, row_count |-> 0, error |-> error]

ErrSqlSyntax == "(1064, 'You have an error in your SQL syntax')"
ErrLostConnection == "(2013, 'Lost connection to MySQL server during query')"
ErrConnect == "query execution error: DB yeongyeol silpae (stage): timed out"
ErrTunnel == "query execution error: SSH Tunnel is not active"

AdapterResults ==
    {AdapterRaises, Succeeds(0), Succeeds(1), Succeeds(1001),
     Fails(ErrSqlSyntax), Fails(ErrLostConnection), Fails(ErrConnect), Fails(ErrTunnel)}

\* The states in which the graph enters the sql_executor node: the earlier
\* stages have stored their results, the validator has accepted final_sql,
\* the marker is the one _route_after_validation asks for, and retry_count
\* and error_message are what earlier regeneration rounds left.
ExecutorTexts ==
    {SqlCount, SqlDelete, SqlDropAfter, SqlGhostTable, SqlTwoSelects, ""}

ExecutorInput(sql, retries) ==
    [InitialState EXCEPT
        !.current_step = SQL_EXECUTION,
        !.schema_analysis = [relevant_tables |-> <<"tb_user">>, analysis_notes |-> "one table"],
        !.query_plan = [query_steps |-> <<"scan tb_user">>, complexity_level |-> "simple"],
        !.sql_result = [sql_query |-> sql, explanation |-> "explained"],
        !.validation_result =
            [is_valid |-> TRUE, syntax_errors |-> <<>>, logic_warnings |-> <<>>,
             final_sql |-> sql],
        !.final_sql = sql,
        !.explanation = "explained",
        !.retry_count = retries,
        !.error_message =
            IF retries = 0 THEN None
            ELSE MsgRetry(retries, [retry_reason |-> "no results"])]

\* retry_count on entry: a first attempt, a second one, the last one that may
\* still be retried, and the one whose retry the ceiling refuses
ExecutorRetries == {0, 1, MaxRetries - 1, MaxRetries}

ExecutorInputs == {ExecutorInput(sql, n) : sql \in ExecutorTexts, n \in ExecutorRetries}

\* The collaborators answer only when they are called.
ExecutorCallsAdapter(st) ==
    /\ ~IsNoneObj(st.validation_result)
    /\ Truthy(st.validation_result.final_sql)
    /\ GatePasses(validate_sql_safety(st.validation_result.final_sql))

ExecutorCallsJudge(adapter) ==
    ~adapter.raises /\ ~is_connection_error(ErrorText(adapter))

\* The exception raised by a call of the last step: by the model call of a
\* stage ("model"), by the model call of the Result Judge ("judge"), by
\* execute_query ("adapter"), or out of the graph ("graph").
Fault(call, exc) == [call |-> call, exc |-> exc]
NoFault == Fault("none", None)

NoReply == Raising

\* One caller at a time: no coroutine besides the run itself, the
\* connection not opened, no session announced.
NoTasks == <<>>
Closed == [tunnel |-> None, connection |-> None]
Idle ==
    /\ tasks = NoTasks
    /\ db_connection = Closed
    /\ current_session_id = None

\* The value of llm_reply when the last step made no _invoke_llm call
Unasked == [raises |-> FALSE, content |-> None, json |-> JsonError, sql_block |-> None]
NoResult == AdapterRaises

-----------------------------------------------------------------------------
(* The graph engine: one action per node, each the node's handler followed *)
(* by the router of its conditional edge.                                   *)

\* A run starts at convert_text_to_sql, on the entry point of the compiled
\* graph, or with the engine at the sql_executor node on one of
\* ExecutorInputs: the graph has no other way into that node than the
\* SQL_EXECUTION marker, which no stage handler sets.
\* the node steps behind a run that enters sql_executor with retry_count
\* retries: the two first stages, then synthesis, validation and
\* execution for each retry, then synthesis and validation
StepsBefore(retries) == 2 + 3 * retries + 2

\* "recursion_limit": 100
recursion_limit == 100

Init ==
    /\ enable_sql_execution \in BOOLEAN
    /\ entry \in {"convert_text_to_sql", "sql_executor"}
    /\ entry = "sql_executor" => enable_sql_execution
    /\ pc = IF entry = "convert_text_to_sql" THEN "schema_analyst" ELSE "sql_executor"
    /\ state \in IF entry = "convert_text_to_sql" THEN {InitialState} ELSE ExecutorInputs
    /\ response = NoneObj
    /\ gate = NoGate
    /\ attempt = NoAttempt
    /\ fault = NoFault
    /\ invoked = 0
    /\ llm_reply = Unasked
    /\ graph_step = IF entry = "convert_text_to_sql" THEN 0 ELSE StepsBefore(state.retry_count)
    /\ Idle

SchemaAnalysisNode ==
    /\ pc = "schema_analyst"
    /\ \E reply \in SchemaReplies :
          /\ state' = schema_analyst_process(state, reply)
          /\ pc' = route_after_schema_analysis(state')
          /\ fault' = IF reply.raises THEN Fault("model", ExcLLM) ELSE NoFault
          /\ invoked' = 1
          /\ llm_reply' = reply
          /\ graph_step' = graph_step + 1
    /\ UNCHANGED <<enable_sql_execution, entry, response, gate, attempt>>
    /\ UNCHANGED concurrent

QueryPlanningNode ==
    /\ pc = "query_planner"
    /\ \E reply \in PlanReplies :
          /\ state' = query_planner_process(state, reply)
          /\ pc' = route_after_query_planning(state')
          /\ fault' = IF reply.raises THEN Fault("model", ExcLLM) ELSE NoFault
          /\ invoked' = IF IsNoneObj(state.schema_analysis) THEN 0 ELSE 1
          /\ llm_reply' = IF invoked' = 1 THEN reply ELSE Unasked
          /\ graph_step' = graph_step + 1
    /\ UNCHANGED <<enable_sql_execution, entry, response, gate, attempt>>
    /\ UNCHANGED concurrent

SqlDevelopmentNode ==
    /\ pc = "sql_developer"
    /\ \E reply \in DeveloperReplies :
          /\ state' = sql_developer_process(state, reply)
          /\ pc' = route_after_sql_development(state')
          /\ fault' = IF reply.raises THEN Fault("model", ExcLLM) ELSE NoFault
          /\ invoked' = IF IsNoneObj(state.query_plan) \/ IsNoneObj(state.schema_analysis)
                        THEN 0 ELSE 1
          /\ llm_reply' = IF invoked' = 1 THEN reply ELSE Unasked
          /\ graph_step' = graph_step + 1
    /\ UNCHANGED <<enable_sql_execution, entry, response, gate, attempt>>
    /\ UNCHANGED concurrent

QualityValidationNode ==
    /\ pc = "quality_validator"
    /\ \E reply \in IF ValidatorCallsModel(state) THEN ValidatorReplies ELSE {NoReply} :
          /\ state' = quality_validator_process(state, reply)
          /\ pc' = route_after_validation(state', enable_sql_execution)
          /\ fault' = IF ValidatorCallsModel(state) /\ reply.raises
                      THEN Fault("model", ExcLLM) ELSE NoFault
          /\ invoked' = IF ValidatorCallsModel(state) THEN 1 ELSE 0
          /\ llm_reply' = IF invoked' = 1 THEN reply ELSE Unasked
          /\ graph_step' = graph_step + 1
    /\ UNCHANGED <<enable_sql_execution, entry, response, gate, attempt>>
    /\ UNCHANGED concurrent

SqlExecutionNode ==
    /\ pc = "sql_executor"
    /\ \E adapter \in IF ExecutorCallsAdapter(state) THEN AdapterResults ELSE {NoResult} :
       \E judge_reply \in IF ExecutorCallsJudge(adapter) THEN JudgeReplies ELSE {NoReply} :
          LET done == sql_executor_process(state, adapter, judge_reply)
          IN  /\ state' = done.state
              /\ attempt' = done.attempt
              /\ gate' = done.gate
              /\ pc' = route_after_execution(done.state)
              /\ fault' = IF done.attempt.raised THEN Fault("adapter", ExcAdapter)
                          ELSE IF done.attempt.judged /\ judge_reply.raises
                          THEN Fault("judge", ExcLLM)
                          ELSE NoFault
              /\ invoked' = IF done.attempt.judged THEN 1 ELSE 0
              /\ llm_reply' = IF invoked' = 1 THEN judge_reply ELSE Unasked
              /\ graph_step' = graph_step + 1
    /\ UNCHANGED <<enable_sql_execution, entry, response>>
    /\ UNCHANGED concurrent

ErrorHandlerNode ==
    /\ pc = "error_handler"
    /\ state' = error_handler(state)
    /\ pc' = "END"
    /\ fault' = NoFault
    /\ invoked' = 0
    /\ llm_reply' = Unasked
    /\ graph_step' = graph_step + 1
    /\ UNCHANGED <<enable_sql_execution, entry, response, gate, attempt>>
    /\ UNCHANGED concurrent

\* convert_text_to_sql once the graph has ended: the response built from
\* the final state, or the one of the outer handler when an exception
\* escaped
Respond ==
    /\ pc = "END"
    /\ \E escaped \in BOOLEAN :
          /\ response' = IF escaped THEN ExceptionResponse(ExcGraph)
                         ELSE BuildResponse(state)
          /\ fault' = IF escaped THEN Fault("graph", ExcGraph) ELSE NoFault
    /\ pc' = "done"
    /\ invoked' = 0
    /\ llm_reply' = Unasked
    /\ graph_step' = graph_step
    /\ UNCHANGED <<enable_sql_execution, entry, state, gate, attempt>>
    /\ UNCHANGED concurrent

Next ==
    \/ SchemaAnalysisNode
    \/ QueryPlanningNode
    \/ SqlDevelopmentNode
    \/ QualityValidationNode
    \/ SqlExecutionNode
    \/ ErrorHandlerNode
    \/ Respond

Spec == Init /\ [][Next]_vars

\* The scheduling of the graph engine: a node that is due runs.
FairSpec == Spec /\ WF_vars(Next)

-----------------------------------------------------------------------------
(* The Safety Gate as a function of its input.                             *)

GatePieces == {"Select", "droP", " ", "x", "(", ")", ";", "'", "-", "/", "*"}

RECURSIVE PieceTexts(_)
PieceTexts(n) ==
    IF n = 0 THEN {""}
    ELSE PieceTexts(n - 1) \cup {t \o p : t \in PieceTexts(n - 1), p \in GatePieces}

GateInputs ==
    PieceTexts(MaxPieces)
    \cup {"SELECT name FROM tb_user WHERE name = 'DROP THE MIC'",
          "SELECT * FROM (SELECT * FROM t WHERE 1=1; DROP TABLE t) x",
          "SELECT a FROM t INTO OUTFILE 'f';",
          "  select updated_at, dropped FROM t;  ",
          SqlCount, SqlDelete, SqlDropAfter, SqlTwoSelects}

GateInit ==
    /\ enable_sql_execution = TRUE
    /\ entry = "validate_sql_safety"
    /\ pc = "validate_sql_safety"
    /\ state = InitialState
    /\ response = NoneObj
    /\ attempt = NoAttempt
    /\ fault = NoFault
    /\ invoked = 0
    /\ llm_reply = Unasked
    /\ graph_step = 0
    /\ Idle
    /\ gate \in {[sql |-> sql, result |-> NoneObj] : sql \in GateInputs}

GateCheck ==
    /\ pc = "validate_sql_safety"
    /\ gate' = [gate EXCEPT !.result = validate_sql_safety(gate.sql)]
    /\ pc' = "done"
    /\ UNCHANGED <<enable_sql_execution, entry, state, response, attempt, fault, invoked, llm_reply, graph_step>>
    /\ UNCHANGED concurrent

GateNext == GateCheck

SpecGate == GateInit /\ [][GateNext]_vars

-----------------------------------------------------------------------------
(* The deterministic verdict of the Result Judge as a function of the     *)
(* execution result; gate.sql holds the SQL text of the attempt.          *)

JudgeInputs == {Succeeds(n) : n \in 0..MaxRows} \cup {Fails(ErrSqlSyntax)}

JudgeInit ==
    /\ enable_sql_execution = TRUE
    /\ entry = "_basic_result_analysis"
    /\ pc = "_basic_result_analysis"
    /\ state = InitialState
    /\ response = NoneObj
    /\ fault = NoFault
    /\ invoked = 0
    /\ llm_reply = Unasked
    /\ graph_step = 0
    /\ Idle
    /\ gate \in {[sql |-> sql, result |-> NoneObj] : sql \in {SqlCount, SqlGhostTable}}
    /\ attempt \in {[NoAttempt EXCEPT !.result = execution_result] :
                        execution_result \in JudgeInputs}

JudgeFallback ==
    /\ pc = "_basic_result_analysis"
    /\ attempt' = [attempt EXCEPT !.judged = TRUE,
                                  !.analysis = _basic_result_analysis(attempt.result)]
    /\ pc' = "done"
    /\ UNCHANGED <<enable_sql_execution, entry, state, response, gate, fault, invoked, llm_reply, graph_step>>
    /\ UNCHANGED concurrent

JudgeNext == JudgeFallback

SpecJudge == JudgeInit /\ [][JudgeNext]_vars

-----------------------------------------------------------------------------
(* The structural check of the Static Validator as a function of the SQL  *)
(* text; gate holds the text and the errors returned.                      *)

SyntaxInputs == GateInputs \cup DeveloperSqlTexts \cup {"insert (x", "x;"}

SyntaxInit ==
    /\ enable_sql_execution = TRUE
    /\ entry = "_basic_syntax_check"
    /\ pc = "_basic_syntax_check"
    /\ state = InitialState
    /\ response = NoneObj
    /\ attempt = NoAttempt
    /\ fault = NoFault
    /\ invoked = 0
    /\ llm_reply = Unasked
    /\ graph_step = 0
    /\ Idle
    /\ gate \in {[sql |-> sql, result |-> NoneObj] : sql \in SyntaxInputs}

SyntaxCheck ==
    /\ pc = "_basic_syntax_check"
    /\ gate' = [gate EXCEPT !.result = [errors |-> _basic_syntax_check(gate.sql)]]
    /\ pc' = "done"
    /\ UNCHANGED <<enable_sql_execution, entry, state, response, attempt, fault, invoked, llm_reply, graph_step>>
    /\ UNCHANGED concurrent

SyntaxNext == SyntaxCheck

SpecSyntax == SyntaxInit /\ [][SyntaxNext]_vars

-----------------------------------------------------------------------------
(* Callers of execute_query on one RealDatabaseConnection.  A coroutine    *)
(* runs to its next await; what it hands to run_in_executor(None, ...) is  *)
(* run by a thread of the loop's default pool, which has more workers than *)
(* there are callers.                                                      *)

MaxCallers == 2
Callers == 1..MaxCallers

ErrUnsafe(errors) == "unsafe SQL: " \o Join(", ", errors)
ErrNoCursor == "'NoneType' object has no attribute 'cursor'"
ErrPacketSequence == "Packet sequence number wrong - got 1 expected 2"

\* the tunnel or connection object that caller t created
Handle(t) == "created by caller " \o ToString(t)

Opened == [tunnel |-> "created earlier", connection |-> "created earlier"]

InQuery(t) == tasks[t].pc = "_execute_sync_query"

\* the other callers whose _execute_sync_query is on the connection of t
OverlappingWith(t) ==
    {u \in Callers \ {t} : InQuery(u) /\ tasks[u].on = tasks[t].on}

Finished(t, result) == [tasks EXCEPT ![t].pc = "done", ![t].result = result]

\* _cleanup_connection
_cleanup_connection == Closed

ConnectionInit ==
    /\ enable_sql_execution = TRUE
    /\ entry = "execute_query"
    /\ pc = "tasks"
    /\ state = InitialState
    /\ response = NoneObj
    /\ gate = NoGate
    /\ attempt = NoAttempt
    /\ fault = NoFault
    /\ invoked = 0
    /\ llm_reply = Unasked
    /\ graph_step = 0
    /\ tasks \in [Callers -> {[pc |-> "execute_query", sql |-> sql, on |-> None,
                               result |-> NoneObj] : sql \in {SqlCount, SqlDelete}}]
    /\ db_connection \in {Closed, Opened}
    /\ current_session_id = None

\* execute_query up to its first await that suspends: the gate, then
\* _ensure_connection, which starts _create_connection when the tunnel or
\* the connection is missing, then the hand-over of _execute_sync_query
ExecuteQuery(t) ==
    /\ tasks[t].pc = "execute_query"
    /\ IF ~validate_sql_safety(tasks[t].sql).is_safe
       THEN /\ tasks' = Finished(t, Fails(ErrUnsafe(validate_sql_safety(tasks[t].sql).errors)))
            /\ UNCHANGED db_connection
       ELSE IF db_connection.tunnel = None \/ db_connection.connection = None
       THEN /\ db_connection' = [_cleanup_connection EXCEPT !.tunnel = Handle(t)]
            /\ tasks' = [tasks EXCEPT ![t].pc = "tunnel.start"]
       ELSE /\ tasks' = [tasks EXCEPT ![t].pc = "queued"]
            /\ UNCHANGED db_connection
    /\ UNCHANGED <<sequential, current_session_id>>

\* tunnel.start has returned or raised in its thread and _create_connection
\* goes on to pymysql.connect, or cleans up and raises ConnectionError
TunnelStarted(t) ==
    /\ tasks[t].pc = "tunnel.start"
    /\ \E started \in BOOLEAN :
          IF started
          THEN /\ tasks' = [tasks EXCEPT ![t].pc = "pymysql.connect"]
               /\ UNCHANGED db_connection
          ELSE /\ db_connection' = _cleanup_connection
               /\ tasks' = Finished(t, Fails(ErrConnect))
    /\ UNCHANGED <<sequential, current_session_id>>

\* pymysql.connect has returned or raised: self.connection is assigned and
\* execute_query hands _execute_sync_query to the pool
Connected(t) ==
    /\ tasks[t].pc = "pymysql.connect"
    /\ \E connected \in BOOLEAN :
          IF connected
          THEN /\ db_connection' = [db_connection EXCEPT !.connection = Handle(t)]
               /\ tasks' = [tasks EXCEPT ![t].pc = "queued"]
          ELSE /\ db_connection' = _cleanup_connection
               /\ tasks' = Finished(t, Fails(ErrConnect))
    /\ UNCHANGED <<sequential, current_session_id>>

\* a pool thread enters _execute_sync_query: self.connection.cursor(...)
BeginSyncQuery(t) ==
    /\ tasks[t].pc = "queued"
    /\ IF db_connection.connection = None
       THEN tasks' = Finished(t, Fails(ErrNoCursor))
       ELSE tasks' = [tasks EXCEPT ![t].pc = "_execute_sync_query",
                                   ![t].on = db_connection.connection]
    /\ UNCHANGED <<sequential, db_connection, current_session_id>>

\* cursor.execute and fetchall return or raise; two threads on one pymysql
\* connection read each other's packets
EndSyncQuery(t) ==
    /\ InQuery(t)
    /\ \E result \in {Succeeds(1), Fails(ErrSqlSyntax)}
                     \cup (IF OverlappingWith(t) # {}
                           THEN {Succeeds(0), Fails(ErrPacketSequence)} ELSE {}) :
          tasks' = Finished(t, result)
    /\ UNCHANGED <<sequential, db_connection, current_session_id>>

ConnectionNext ==
    \E t \in Callers :
        \/ ExecuteQuery(t)
        \/ TunnelStarted(t)
        \/ Connected(t)
        \/ BeginSyncQuery(t)
        \/ EndSyncQuery(t)

SpecConnection == ConnectionInit /\ [][ConnectionNext]_vars

-----------------------------------------------------------------------------
(* Runs of convert_text_to_sql on one orchestrator.  Every node awaits its *)
(* model call, so the runs interleave node by node.  The sql_executor node *)
(* is entered as in Init.                                                  *)

SessionIds == {"093000_001", "093000_002"}

GraphNodes ==
    <<"schema_analyst", "query_planner", "sql_developer", "quality_validator",
      "sql_executor", "END">>

NodeAfter(node) ==
    GraphNodes[(CHOOSE i \in 1..Len(GraphNodes) : GraphNodes[i] = node) + 1]

SessionsInit ==
    /\ enable_sql_execution = TRUE
    /\ entry = "convert_text_to_sql"
    /\ pc = "tasks"
    /\ state = InitialState
    /\ response = NoneObj
    /\ gate = NoGate
    /\ attempt = NoAttempt
    /\ fault = NoFault
    /\ invoked = 0
    /\ llm_reply = Unasked
    /\ graph_step = 0
    /\ tasks \in [Callers -> {[pc |-> "convert_text_to_sql", session_id |-> id,
                               start_time |-> NoneObj, thread_id |-> None,
                               received |-> NoneObj] : id \in SessionIds}]
    /\ db_connection = Closed
    /\ current_session_id = None

\* time.time(): whole seconds and milliseconds; the clock does not run
\* backwards
MaxSecond == 1
Clock == [sec : 0..MaxSecond, msec : {0, 500}]
NotBefore(now, earlier) ==
    now.sec > earlier.sec \/ (now.sec = earlier.sec /\ now.msec >= earlier.msec)

\* f"session_{int(start_time)}"
thread_id(start_time) == "session_" \o ToString(start_time.sec)

\* convert_text_to_sql up to the await of workflow.ainvoke
ConvertTextToSql(t) ==
    /\ tasks[t].pc = "convert_text_to_sql"
    /\ current_session_id' = tasks[t].session_id
    /\ \E start_time \in Clock :
          /\ \A u \in Callers :
                ~IsNoneObj(tasks[u].start_time) => NotBefore(start_time, tasks[u].start_time)
          /\ tasks' = [tasks EXCEPT ![t].pc = "schema_analyst",
                                    ![t].start_time = start_time,
                                    ![t].thread_id = thread_id(start_time)]
    /\ UNCHANGED <<sequential, db_connection>>

\* a stage node and its router: on to the next node, or over the error
\* handler to the end
StageNode(t) ==
    /\ tasks[t].pc \in {"schema_analyst", "query_planner", "sql_developer",
                        "quality_validator"}
    /\ \E next \in {NodeAfter(tasks[t].pc), "END"} :
          tasks' = [tasks EXCEPT ![t].pc = next]
    /\ UNCHANGED <<sequential, db_connection, current_session_id>>

\* _sql_execution_node: self.sql_executor.process(state, self.current_session_id)
_sql_execution_node(t) ==
    /\ tasks[t].pc = "sql_executor"
    /\ tasks' = [tasks EXCEPT ![t].pc = "END",
                              ![t].received = [session_id |-> current_session_id]]
    /\ UNCHANGED <<sequential, db_connection, current_session_id>>

SessionsNext ==
    \E t \in Callers :
        \/ ConvertTextToSql(t)
        \/ StageNode(t)
        \/ _sql_execution_node(t)

SpecSessions == SessionsInit /\ [][SessionsNext]_vars

-----------------------------------------------------------------------------
(* RealDatabaseConnection.get_table_info, one caller at a time: tasks[1]   *)
(* holds the call, the tables the database has and whether the database    *)
(* can be reached.                                                         *)

DatabaseTables == {"tb_user", "tb_transaction", "tb_order"}
TableNames == DatabaseTables \cup {"tb_ghost", "users", "t"}

\* the rows DESCRIBE returns for a table of the database
DescribeRows(table_name) ==
    <<[Field |-> "id", Key |-> "PRI"], [Field |-> table_name \o "_name", Key |-> ""]>>

\* what the server answers to a statement of get_table_info
ServerAnswer(statement, table_name, tables) ==
    LET data == IF table_name \notin tables THEN <<>>
                ELSE IF statement = "SHOW" THEN <<[Tables |-> table_name]>>
                ELSE DescribeRows(table_name)
    IN  IF statement = "DESCRIBE" /\ table_name \notin tables
        THEN [success |-> FALSE, data |-> <<>>, error |-> "(1146, 'Table does not exist')"]
        ELSE [success |-> TRUE, data |-> data, error |-> None]

\* execute_query, called with the connection open: the gate, then the
\* statement on the server
execute_query(sql, answer) ==
    LET safety == validate_sql_safety(sql)
    IN  IF ~safety.is_safe
        THEN [success |-> FALSE, data |-> <<>>, error |-> ErrUnsafe(safety.errors)]
        ELSE answer

RECURSIVE Fields(_), PrimaryKeys(_)
Fields(rows) ==
    IF rows = <<>> THEN <<>> ELSE <<rows[1].Field>> \o Fields(Tail(rows))
PrimaryKeys(rows) ==
    IF rows = <<>> THEN <<>>
    ELSE (IF rows[1].Key = "PRI" THEN <<rows[1].Field>> ELSE <<>>) \o PrimaryKeys(Tail(rows))

\* what execute_query gets from the server, or from the transport when the
\* server cannot be reached
Answer(statement, table_name, tables, reachable) ==
    IF reachable THEN ServerAnswer(statement, table_name, tables)
    ELSE [success |-> FALSE, data |-> <<>>, error |-> ErrLostConnection]

get_table_info(table_name, tables, reachable, connection) ==
    IF connection = Closed /\ ~reachable
    THEN [exists |-> FALSE, columns |-> <<>>, primary_key |-> None,
          error |-> "table info lookup error: " \o ErrConnect]
    ELSE
    LET check_query  == "SHOW TABLES LIKE '" \o table_name \o "';"
        check_result == execute_query(check_query, Answer("SHOW", table_name, tables, reachable))
        desc_query   == "DESCRIBE " \o table_name \o ";"
        desc_result  == execute_query(desc_query, Answer("DESCRIBE", table_name, tables, reachable))
    IN  IF ~check_result.success \/ check_result.data = <<>>
        THEN [exists |-> FALSE, columns |-> <<>>, primary_key |-> None,
              error |-> "the table does not exist."]
        ELSE IF ~desc_result.success
        THEN [exists |-> TRUE, columns |-> <<>>, primary_key |-> None,
              error |-> "table structure lookup failed: " \o desc_result.error]
        ELSE [exists |-> TRUE, columns |-> Fields(desc_result.data),
              primary_key |-> IF PrimaryKeys(desc_result.data) = <<>> THEN None
                              ELSE PrimaryKeys(desc_result.data)[1],
              error |-> None]

TableInfoInit ==
    /\ enable_sql_execution = TRUE
    /\ entry = "get_table_info"
    /\ pc = "tasks"
    /\ state = InitialState
    /\ response = NoneObj
    /\ gate = NoGate
    /\ attempt = NoAttempt
    /\ fault = NoFault
    /\ invoked = 0
    /\ llm_reply = Unasked
    /\ graph_step = 0
    /\ tasks \in {<<[pc |-> "get_table_info", table_name |-> table_name,
                     tables |-> tables, reachable |-> reachable, result |-> NoneObj]>> :
                    table_name \in TableNames, tables \in SUBSET DatabaseTables,
                    reachable \in BOOLEAN}
    /\ db_connection \in {Closed, Opened}
    /\ current_session_id = None

\* get_table_info from _ensure_connection to its return
GetTableInfo ==
    /\ tasks[1].pc = "get_table_info"
    /\ tasks' = [tasks EXCEPT
                    ![1].pc = "done",
                    ![1].result = get_table_info(tasks[1].table_name, tasks[1].tables,
                                                 tasks[1].reachable, db_connection)]
    /\ db_connection' = IF db_connection = Closed /\ ~tasks[1].reachable
                        THEN _cleanup_connection
                        ELSE IF db_connection = Closed
                        THEN [tunnel |-> Handle(1), connection |-> Handle(1)]
                        ELSE db_connection
    /\ UNCHANGED <<sequential, current_session_id>>

TableInfoNext == GetTableInfo

SpecTableInfo == TableInfoInit /\ [][TableInfoNext]_vars

-----------------------------------------------------------------------------
(* Properties.                                                             *)

Range(xs) == {xs[i] : i \in 1..Len(xs)}

Terminal == {COMPLETED, ERROR}

\* the run was started by convert_text_to_sql
Converting == entry = "convert_text_to_sql"

\* C1: a run started by convert_text_to_sql reaches exactly one terminal
\* stage, COMPLETED or ERROR: once current_step is terminal no handler
\* changes it, so no run reaches both.
C1_OneTerminalStage ==
    [][(Converting /\ state.current_step \in Terminal)
          => state'.current_step = state.current_step]_vars

\* The attempt the executor has just handled was not accepted: the
\* execution failed or the verdict is not valid.
NotAccepted ==
    ~(attempt.result.success /\ Get(attempt.analysis, "is_valid", FALSE))

\* The attempt's verdict asks for a retry and retry_count was 20 on entry.
RetryAskedAtCeiling ==
    /\ attempt.judged
    /\ Get(attempt.analysis, "needs_retry", FALSE)
    /\ attempt.retry_before = MaxRetries

BudgetExceeded ==
    /\ state.current_step = ERROR
    /\ state.error_message = MsgBudget
    /\ state.retry_count = MaxRetries
    /\ pc # "sql_developer"

\* C2 (as stated): retry_count is always within 0..20, and an attempt whose
\* verdict asks for a retry at retry_count 20 ends in ERROR with the
\* budget-exceeded message and retry_count still 20.
C2_AnyRetryVerdictAtCeiling ==
    /\ state.retry_count \in 0..MaxRetries
    /\ RetryAskedAtCeiling => BudgetExceeded

\* C2: retry_count is always within 0..20, and an attempt that is not
\* accepted and whose verdict asks for a retry at retry_count 20 ends in
\* ERROR with the budget-exceeded message and retry_count still 20, not in
\* SQL_DEVELOPMENT.
C2_RetryBudget ==
    /\ state.retry_count \in 0..MaxRetries
    /\ (RetryAskedAtCeiling /\ NotAccepted) => BudgetExceeded

C2_Witness ==
    /\ RetryAskedAtCeiling
    /\ NotAccepted
    /\ state.current_step = ERROR
    /\ state.error_message = MsgBudget

\* C3: a step of the executor leads to sql_developer only if the attempt
\* was not classified as a connection error, its verdict has needs_retry
\* true and retry_count was below 20 on entry; every other step of the
\* executor leaves current_step at COMPLETED or ERROR.
C3_BackEdge ==
    [][pc = "sql_executor" =>
          IF pc' = "sql_developer" \/ state'.current_step = SQL_DEVELOPMENT
          THEN /\ attempt'.executed # None
               /\ ~attempt'.conn_error
               /\ attempt'.judged
               /\ Get(attempt'.analysis, "needs_retry", FALSE) = TRUE
               /\ attempt'.retry_before < MaxRetries
               /\ state.retry_count < MaxRetries
          ELSE /\ state'.current_step \in Terminal
               /\ pc' \in {"END", "error_handler"}]_vars

C3_Witness ==
    /\ attempt.called
    /\ pc = "sql_developer"
    /\ state.current_step = SQL_DEVELOPMENT
    /\ state.retry_count = attempt.retry_before + 1

\* The validator took the fast path and accepted the synthesized SQL, the
\* Safety Gate passes that text, and no answer of the executor or of the
\* judge is anything but a successful result with at least one row and a
\* valid verdict.
HappyPath ==
    /\ ~IsNoneObj(state.schema_analysis)
    /\ ~IsNoneObj(state.query_plan)
    /\ ~IsNoneObj(state.sql_result)
    /\ ~IsNoneObj(state.validation_result)
    /\ Len(_basic_syntax_check(state.sql_result.sql_query)) = 0
    /\ state.validation_result.is_valid
    /\ validate_sql_safety(state.sql_result.sql_query).is_safe
    /\ attempt.called =>
          /\ attempt.executed # None
          /\ ~attempt.raised
          /\ attempt.result.success
          /\ attempt.result.row_count >= 1
          /\ attempt.judged
          /\ Get(attempt.analysis, "is_valid", FALSE)

\* C4: with SQL execution enabled, a run of convert_text_to_sql on the
\* happy path has ended in COMPLETED with final_sql the synthesized SQL and
\* the rows the executor returned, and its response has success = true.
C4_HappyPathCompletes ==
    (Converting /\ enable_sql_execution /\ pc = "done" /\ HappyPath) =>
        /\ state.current_step = COMPLETED
        /\ state.final_sql = state.sql_result.sql_query
        /\ response.success
        /\ response.sql_query = state.sql_result.sql_query
        /\ attempt.called
        /\ attempt.result.row_count >= 1
        /\ state.execution_data = attempt.result.data
        /\ response.execution_data = attempt.result.data

\* C5: with SQL execution enabled, a step of the validator that ends with
\* a valid outcome is followed by the sql_executor node, not by the error
\* handler and not by the end of the run (stated for the runs started by
\* convert_text_to_sql).
C5_ValidGoesToExecutor ==
    [][(/\ Converting
        /\ enable_sql_execution
        /\ pc = "quality_validator"
        /\ state'.current_step # ERROR
        /\ ~IsNoneObj(state'.validation_result)
        /\ state'.validation_result.is_valid)
          => pc' = "sql_executor"]_vars

\* the nodes of the graph that run a stage, and the marker of each
StageNodes ==
    {"schema_analyst", "query_planner", "sql_developer", "quality_validator",
     "sql_executor"}

Marker(node) ==
    CASE node = "schema_analyst"    -> SCHEMA_ANALYSIS
      [] node = "query_planner"     -> QUERY_PLANNING
      [] node = "sql_developer"     -> SQL_DEVELOPMENT
      [] node = "quality_validator" -> QUALITY_VALIDATION
      [] node = "sql_executor"      -> SQL_EXECUTION

\* a handler is entered only on its own marker
EntersOnMarker ==
    (pc' \in StageNodes /\ pc' # pc) => state'.current_step = Marker(pc')

\* the error handler sets ERROR and ends the run
ErrorHandlerEnds ==
    pc = "error_handler" => (state'.current_step = ERROR /\ pc' = "END")

\* the last stage of the graph has left COMPLETED and the run ends
CompletedEnds ==
    /\ pc = IF enable_sql_execution THEN "sql_executor" ELSE "quality_validator"
    /\ state'.current_step = COMPLETED
    /\ pc' = "END"

\* C6 (as stated): a stage handler runs only if the preceding stage left
\* current_step at its marker; after any stage every other value of
\* current_step routes to the error handler, which sets ERROR and ends the
\* run.
C6_EveryOtherValueIsAnError ==
    [][/\ EntersOnMarker
       /\ (pc \in StageNodes /\ pc' \notin StageNodes) => pc' = "error_handler"
       /\ ErrorHandlerEnds]_vars

\* C6: a stage handler runs only if the preceding stage left current_step
\* at its marker; after any stage every other value of current_step routes
\* to the error handler, which sets ERROR and ends the run, except
\* COMPLETED after the last stage of the graph, which ends the run.
C6_MarkerOrErrorOrCompleted ==
    [][/\ EntersOnMarker
       /\ (pc \in StageNodes /\ pc' \notin StageNodes) =>
              (pc' = "error_handler" \/ CompletedEnds)
       /\ ErrorHandlerEnds]_vars

C6_Witness ==
    /\ Converting
    /\ pc = "END"
    /\ state.current_step = ERROR
    /\ ~IsNoneObj(state.query_plan)
    /\ IsNoneObj(state.sql_result)

\* C7: an attempt whose result is classified as a connection failure ends
\* in ERROR with a non-empty message, retry_count as on entry, not in
\* SQL_DEVELOPMENT, and the Result Judge has not run for it.
C7_ConnectionFailureIsFatal ==
    (attempt.executed # None /\ ~attempt.raised
        /\ is_connection_error(ErrorText(attempt.result))) =>
        /\ attempt.conn_error
        /\ state.current_step = ERROR
        /\ Truthy(state.error_message)
        /\ state.retry_count = attempt.retry_before
        /\ pc # "sql_developer"
        /\ ~attempt.judged
        /\ IsNoneObj(attempt.analysis)

C7_Witness ==
    /\ attempt.conn_error
    /\ attempt.result.error = ErrTunnel
    /\ state.current_step = ERROR
    /\ state.retry_count = attempt.retry_before

\* the maximal runs of word characters of a text, from position i on
RECURSIVE WordsFrom(_, _, _)
WordsFrom(s, i, start) ==
    IF i > Len(s)
    THEN IF start < i THEN {SubSeq(s, start, i - 1)} ELSE {}
    ELSE IF IsWordChar(CharAt(s, i))
    THEN WordsFrom(s, i + 1, start)
    ELSE (IF start < i THEN {SubSeq(s, start, i - 1)} ELSE {})
         \cup WordsFrom(s, i + 1, i + 1)

Words(s) == WordsFrom(s, 1, 1)

\* the keywords the gate forbids as single words
ForbiddenWords ==
    {"INSERT", "UPDATE", "DELETE", "DROP", "CREATE", "ALTER", "TRUNCATE",
     "REPLACE", "MERGE", "GRANT", "REVOKE", "EXEC", "EXECUTE", "CALL", "LOAD",
     "OUTFILE", "DUMPFILE"}

BeginsWithSelect(sql) == StartsWith(Strip(Upper(sql)), "SELECT")

HasComment(sql) ==
    \E i \in 1..(Len(sql) - 1) : SubSeq(sql, i, i + 1) \in {"--", "/*", "*/"}

Terminators(sql) == Cardinality({i \in 1..Len(sql) : CharAt(sql, i) = ";"})

GateChecked == pc = "done" /\ ~IsNoneObj(gate.result)

\* C8: validate_sql_safety answers is_safe only for a text that begins with
\* SELECT (case and surrounding whitespace ignored), has no forbidden
\* keyword as a whole word, no comment marker and at most one ';'; is_safe
\* holds exactly when the error list is empty; past the SELECT check every
\* violated rule contributes its error.
C8_GateRules ==
    GateChecked =>
        LET sql == gate.sql
            r   == gate.result
        IN  /\ r.is_safe =>
                  /\ BeginsWithSelect(sql)
                  /\ Words(Upper(sql)) \cap ForbiddenWords = {}
                  /\ ~HasComment(sql)
                  /\ Terminators(sql) <= 1
            /\ r.is_safe <=> (r.errors = <<>>)
            /\ ~BeginsWithSelect(sql) => r.errors = <<ErrSelectOnly>>
            /\ BeginsWithSelect(sql) =>
                  /\ \A k \in Words(Upper(sql)) \cap ForbiddenWords :
                        ErrKeyword(k) \in Range(r.errors)
                  /\ HasComment(sql) => ErrComment \in Range(r.errors)
                  /\ Terminators(sql) > 1 => ErrMultiQuery \in Range(r.errors)

C8_Witness ==
    /\ GateChecked
    /\ gate.result.is_safe
    /\ Terminators(gate.sql) = 1
    /\ Contains(gate.sql, "(")

\* C9: a text reaches execute_query only if validate_sql_safety accepted
\* exactly that text in the same step; when the gate rejects, the adapter
\* is not called and the step returns with ERROR, a message listing the
\* violated rules, retry_count as on entry, and never SQL_DEVELOPMENT.
C9_OnlyGatedTextIsExecuted ==
    /\ attempt.executed # None =>
          /\ attempt.gate_sql = attempt.executed
          /\ gate.sql = attempt.executed
          /\ validate_sql_safety(attempt.executed).is_safe
    /\ (attempt.gate_sql # None /\ ~validate_sql_safety(attempt.gate_sql).is_safe) =>
          /\ attempt.executed = None
          /\ IsNoneObj(attempt.result)
          /\ ~attempt.raised
          /\ state.current_step = ERROR
          /\ gate.result.errors # <<>>
          /\ state.error_message = MsgUnsafe(gate.result.errors)
          /\ \A e \in Range(gate.result.errors) : Contains(state.error_message, e)
          /\ state.retry_count = attempt.retry_before
          /\ pc # "sql_developer"

C9_Witness ==
    /\ attempt.gate_sql = SqlDropAfter
    /\ attempt.executed = None
    /\ state.current_step = ERROR
    /\ Contains(state.error_message, ErrKeyword("DROP"))

\* two SELECT statements separated by a single ';', no trailing terminator
TwoSelectStatements(sql) ==
    \E i \in 1..Len(sql) :
        /\ CharAt(sql, i) = ";"
        /\ Terminators(sql) = 1
        /\ BeginsWithSelect(SubSeq(sql, 1, i - 1))
        /\ BeginsWithSelect(SubSeq(sql, i + 1, Len(sql)))

\* C10: the gate accepts one statement only: a text holding two SELECT
\* statements separated by a single ';' is rejected.
C10_TwoStatementsRejected ==
    (GateChecked /\ TwoSelectStatements(gate.sql)) => ~gate.result.is_safe

\* the text outside its single-quoted string literals
RECURSIVE OutsideLiteralsFrom(_, _, _)
OutsideLiteralsFrom(s, i, quoted) ==
    IF i > Len(s) THEN ""
    ELSE IF CharAt(s, i) = "'" THEN OutsideLiteralsFrom(s, i + 1, ~quoted)
    ELSE IF quoted THEN OutsideLiteralsFrom(s, i + 1, quoted)
    ELSE CharAt(s, i) \o OutsideLiteralsFrom(s, i + 1, quoted)

OutsideLiterals(s) == OutsideLiteralsFrom(s, 1, FALSE)

\* a single SELECT statement whose forbidden keywords all sit inside
\* single-quoted string literals
KeywordOnlyInLiteral(sql) ==
    /\ BeginsWithSelect(sql)
    /\ Count(sql, "'") % 2 = 0
    /\ Words(Upper(sql)) \cap ForbiddenWords # {}
    /\ Words(Upper(OutsideLiterals(sql))) \cap ForbiddenWords = {}
    /\ ~HasComment(sql)
    /\ Terminators(sql) <= 1

\* C11: validate_sql_safety accepts a single SELECT statement in which a
\* forbidden keyword occurs only as a word inside a single-quoted string
\* literal.
C11_KeywordInLiteralAccepted ==
    (GateChecked /\ KeywordOnlyInLiteral(gate.sql)) => gate.result.is_safe

\* the run has reached a terminal stage
AtTerminalStage == state.current_step \in Terminal

\* C12: once a run has reached a terminal stage exactly one of final_sql
\* and error_message is present (non-empty): never both, never neither.
C12_FinalSqlXorErrorMessage ==
    AtTerminalStage => (Truthy(state.final_sql) # Truthy(state.error_message))

\* convert_text_to_sql has returned
Responded == pc = "done" /\ ~IsNoneObj(response)

\* C13: the response is never a mix: success exactly when the final stage
\* is COMPLETED with a non-empty final_sql, and then sql_query is that SQL
\* and error_message is absent; otherwise success is false, error_message
\* is non-empty (the generic one if the state carried none) and sql_query
\* and execution_data are absent.
C13_ResponseIsNeverAMix ==
    Responded =>
        /\ response.exception = None =>
              (response.success <=>
                  (state.current_step = COMPLETED /\ Truthy(state.final_sql)))
        /\ response.success =>
              /\ response.exception = None
              /\ response.sql_query = state.final_sql
              /\ Truthy(response.sql_query)
              /\ response.error_message = None
        /\ ~response.success =>
              /\ Truthy(response.error_message)
              /\ response.sql_query = None
              /\ IsNoneObj(response.execution_data)
              /\ (response.exception = None /\ ~Truthy(state.error_message))
                    => response.error_message = MsgUnknown
              /\ (response.exception = None /\ Truthy(state.error_message))
                    => response.error_message = state.error_message

C13_Witness ==
    /\ Responded
    /\ Converting
    /\ ~response.success
    /\ state.current_step = COMPLETED
    /\ response.error_message = MsgUnknown

\* the stages of the pipeline that run a handler
PipelineStages ==
    {SCHEMA_ANALYSIS, QUERY_PLANNING, SQL_DEVELOPMENT, QUALITY_VALIDATION,
     SQL_EXECUTION}

\* C14: a failed response of convert_text_to_sql names in failed_at_step
\* the pipeline stage whose handler detected the failure.
C14_FailedAtStepNamesTheStage ==
    (Responded /\ Converting /\ ~response.success /\ response.exception = None)
        => response.failed_at_step \in PipelineStages

\* the stage handler has turned the exception into stage ERROR and kept
\* its text
FaultBecameError ==
    /\ state.current_step = ERROR
    /\ Truthy(state.error_message)
    /\ Contains(state.error_message, fault.exc)

\* an exception that escaped the graph has become a failed response that
\* keeps its text
GraphFaultBecameResponse ==
    fault.call = "graph" =>
        /\ Responded
        /\ ~response.success
        /\ Contains(response.error_message, fault.exc)

\* C15 (as stated): an exception raised inside any stage, a failing model
\* call or a failing database adapter included, is turned by the stage
\* handler into stage ERROR with the exception text in error_message, and
\* an exception escaping the graph into a failed response that contains
\* the exception text.
C15_EveryFaultBecomesError ==
    /\ fault.call \in {"model", "judge", "adapter"} => FaultBecameError
    /\ GraphFaultBecameResponse

\* C15: the same, except for a failing model call of the Result Judge, from
\* which the executor recovers with the deterministic verdict.
C15_FaultsBecomeErrors ==
    /\ fault.call \in {"model", "adapter"} => FaultBecameError
    /\ GraphFaultBecameResponse

C15_Witness ==
    /\ fault.call = "adapter"
    /\ state.current_step = ERROR
    /\ Contains(state.error_message, ExcAdapter)

\* the deterministic verdict has been computed for attempt.result
FallbackJudged == pc = "done" /\ entry = "_basic_result_analysis"

\* C16: for a successful result with row_count 0 the deterministic verdict
\* is is_valid false, needs_retry true, retry_reason "no results",
\* whatever the SQL text.
C16_NoRowsAsksForRetry ==
    (FallbackJudged /\ attempt.result.success /\ attempt.result.row_count = 0) =>
        /\ attempt.analysis.is_valid = FALSE
        /\ attempt.analysis.needs_retry = TRUE
        /\ attempt.analysis.retry_reason = ReasonNoResults

C16_Witness ==
    /\ FallbackJudged
    /\ attempt.result.success
    /\ attempt.result.row_count = 0
    /\ attempt.analysis.needs_retry
    /\ gate.sql = SqlGhostTable

\* C17: for a successful result the deterministic verdict is valid without
\* retry for every row_count from 1 to 1000, and invalid with retry for
\* excess results for every row_count of 1001 or more.
C17_RowCountBoundary ==
    (FallbackJudged /\ attempt.result.success) =>
        /\ attempt.result.row_count \in 1..1000 =>
              /\ attempt.analysis.is_valid = TRUE
              /\ attempt.analysis.needs_retry = FALSE
        /\ attempt.result.row_count >= 1001 =>
              /\ attempt.analysis.is_valid = FALSE
              /\ attempt.analysis.needs_retry = TRUE
              /\ attempt.analysis.retry_reason = ReasonTooManyResults

C17_Witness ==
    /\ FallbackJudged
    /\ attempt.result.success
    /\ attempt.result.row_count = 1000
    /\ attempt.analysis.is_valid

Occurrences(s, c) == Cardinality({i \in 1..Len(s) : CharAt(s, i) = c})

\* the four rules of the structural check, each as the set of the errors
\* it asks for
LacksKeyword(sql) ==
    \A k \in {"SELECT", "INSERT", "UPDATE", "DELETE"} :
        \A i \in 1..(Len(sql) - Len(k) + 1) : SubSeq(Upper(sql), i, i + Len(k) - 1) # k

LacksTerminator(sql) ==
    Strip(sql) = "" \/ CharAt(Strip(sql), Len(Strip(sql))) # ";"

ViolatedRules(sql) ==
    (IF LacksKeyword(sql) THEN {ErrNoKeyword} ELSE {})
    \cup (IF Occurrences(sql, "(") # Occurrences(sql, ")") THEN {ErrParens} ELSE {})
    \cup (IF Occurrences(sql, "'") % 2 = 1 THEN {ErrQuotes} ELSE {})
    \cup (IF LacksTerminator(sql) THEN {ErrSemicolon} ELSE {})

SyntaxChecked == pc = "done" /\ entry = "_basic_syntax_check"

\* C18: _basic_syntax_check reports exactly one error per violated rule
\* among its four rules: a query that lacks only the terminator and has
\* one unbalanced parenthesis yields two errors, a query that violates
\* none yields the empty list.
C18_OneErrorPerViolatedRule ==
    SyntaxChecked =>
        /\ Range(gate.result.errors) = ViolatedRules(gate.sql)
        /\ Len(gate.result.errors) = Cardinality(ViolatedRules(gate.sql))

C18_Witness ==
    /\ SyntaxChecked
    /\ gate.sql = SqlOpenParen
    /\ ViolatedRules(gate.sql) = {ErrParens, ErrSemicolon}
    /\ Len(gate.result.errors) = 2

\* C19: in a pass of the validator over a synthesized SQL, if the
\* structural check finds no defect the outcome is valid with final SQL
\* the synthesized SQL, the model is not invoked and no interaction-log
\* entry is added; if it finds a defect the model is invoked exactly once.
C19_FastPathOrOneCorrection ==
    [][(/\ pc = "quality_validator"
        /\ ~IsNoneObj(state.sql_result)
        /\ Truthy(state.sql_result.sql_query)) =>
          IF ViolatedRules(state.sql_result.sql_query) = {}
          THEN /\ invoked' = 0
               /\ state'.agent_interactions = state.agent_interactions
               /\ state'.validation_result.is_valid
               /\ state'.validation_result.final_sql = state.sql_result.sql_query
               /\ state'.final_sql = state.sql_result.sql_query
               /\ state'.current_step = COMPLETED
          ELSE /\ invoked' = 1
               /\ Len(state'.agent_interactions) <= Len(state.agent_interactions) + 1]_vars

C19_Witness ==
    /\ Converting
    /\ pc \in {"END", "error_handler"}
    /\ state.current_step = COMPLETED
    /\ invoked = 0
    /\ state.validation_result.final_sql = state.sql_result.sql_query
    /\ Len(state.agent_interactions) = 3

Defects(sql) == Cardinality(ViolatedRules(sql))

\* C20: when the structural check found defects and the model answered,
\* the outcome is valid, and its final SQL handed on, only if the
\* structural check of that final SQL finds strictly fewer defects than
\* the synthesized SQL had.
C20_ValidOnlyIfFewerDefects ==
    [][(/\ Converting
        /\ pc = "quality_validator"
        /\ ~IsNoneObj(state.sql_result)
        /\ Truthy(state.sql_result.sql_query)
        /\ Defects(state.sql_result.sql_query) > 0
        /\ state'.current_step = COMPLETED) =>
          Defects(state'.validation_result.final_sql)
              < Defects(state.sql_result.sql_query)]_vars

\* the correction round of the validator ran and the model answered with
\* text that holds no structured object
CorrectionUnparsed ==
    /\ invoked = 1
    /\ ~llm_reply.raises
    /\ IsJsonError(llm_reply.json)

ValidatorRejectedOriginal(original_sql, syntax_errors) ==
    /\ ~IsNoneObj(state.validation_result)
    /\ ~state.validation_result.is_valid
    /\ state.validation_result.syntax_errors = syntax_errors
    /\ state.validation_result.final_sql = original_sql
    /\ state.current_step = ERROR
    /\ \A i \in 1..Len(state.validation_result.syntax_errors) :
          Contains(state.error_message, state.validation_result.syntax_errors[i])
    /\ pc = "error_handler"

\* C21 as stated: when the structural check found defects and the model's
\* correction cannot be parsed as a structured object, the outcome is
\* invalid, carries the original defect list and the synthesized SQL as
\* final_sql, and the run goes to ERROR with a message listing the defects.
C21_UnparsedCorrectionKeepsOriginal ==
    [][(/\ pc = "quality_validator"
        /\ ~IsNoneObj(state.sql_result)
        /\ ViolatedRules(state.sql_result.sql_query) # {}
        /\ CorrectionUnparsed') =>
          ValidatorRejectedOriginal(state.sql_result.sql_query,
                                    _basic_syntax_check(state.sql_result.sql_query))']_vars

\* C21: the same, for a correction that holds neither a structured object
\* nor a fenced SQL block: the SQL of a fenced block is taken as the
\* correction and judged by the re-check.
C21_UnparsedCorrectionWithoutBlockKeepsOriginal ==
    [][(/\ pc = "quality_validator"
        /\ ~IsNoneObj(state.sql_result)
        /\ ViolatedRules(state.sql_result.sql_query) # {}
        /\ CorrectionUnparsed'
        /\ llm_reply'.sql_block = None) =>
          ValidatorRejectedOriginal(state.sql_result.sql_query,
                                    _basic_syntax_check(state.sql_result.sql_query))']_vars

C21_Witness ==
    /\ Converting
    /\ CorrectionUnparsed
    /\ llm_reply.sql_block = None
    /\ Len(state.agent_interactions) = 4
    /\ state.agent_interactions[4].agent = "quality_validator"
    /\ ValidatorRejectedOriginal(state.sql_result.sql_query,
                                 _basic_syntax_check(state.sql_result.sql_query))
    /\ Len(state.validation_result.syntax_errors) > 0

\* C22: of the queries that run concurrently through one
\* RealDatabaseConnection at most one is inside _execute_sync_query on
\* the physical connection at any time.
C22_OneQueryOnTheConnection ==
    \A t \in DOMAIN tasks :
        (entry = "execute_query" /\ InQuery(t)) => OverlappingWith(t) = {}

C24_OneLogEntryPerModelCall ==
    [][Len(state'.agent_interactions) = Len(state.agent_interactions) + invoked']_vars

BackEdge == pc = "sql_executor" /\ pc' = "sql_developer"

\* C25: retry_count starts at 0, grows by exactly one on each back-edge
\* step from the executor to the Query Synthesizer, and is changed by no
\* other step: it is never reset and never decreases.
C25_RetryCountCountsBackEdges ==
    /\ Converting => state.retry_count = 0
    /\ [][IF BackEdge
          THEN state'.retry_count = state.retry_count + 1
          ELSE state'.retry_count = state.retry_count]_vars

C25_Witness ==
    /\ pc = "sql_developer"
    /\ attempt.judged
    /\ attempt.retry_before = MaxRetries - 1
    /\ state.retry_count = MaxRetries
    /\ state.current_step = SQL_DEVELOPMENT

\* the error text names the connection: it contains, whatever the case,
\* "connection", "tunnel" or "yeongyeol silpae" (connection failed)
NamesConnection(error_text) ==
    \E word \in {"connection", "tunnel", "yeongyeol silpae"} :
        Contains(Lower(error_text), word)

\* C26: an execution result whose error text contains, case-insensitively,
\* "connection", "tunnel" or "connection failed" in Korean is classified
\* as a connection failure: the judge is not asked, the run goes to ERROR
\* and is not retried.
C26_ConnectionTextIsAConnectionFailure ==
    [][(/\ pc = "sql_executor"
        /\ ~IsNoneObj(attempt'.result)
        /\ NamesConnection(ErrorText(attempt'.result))) =>
          /\ attempt'.conn_error
          /\ ~attempt'.judged
          /\ state'.current_step = ERROR
          /\ state'.retry_count = state.retry_count]_vars

\* the Result Judge was asked and its model call failed, or answered with
\* text that holds no parseable object
JudgeUnanswered ==
    /\ attempt.judged
    /\ llm_reply.raises \/ IsJsonError(llm_reply.json)

\* C27: the Result Judge never raises and always yields a verdict; when
\* its model call fails or the response holds no parseable object the
\* verdict is exactly the one of the deterministic fallback, which for a
\* failed execution is is_valid false, needs_retry true.
C27_JudgeFallsBackToDeterministicVerdict ==
    [][(pc = "sql_executor" /\ attempt'.judged) =>
          /\ ~IsNoneObj(attempt'.analysis)
          /\ state'.sql_execution_result.analysis = attempt'.analysis
          /\ state'.current_step \in {COMPLETED, SQL_DEVELOPMENT, ERROR}
          /\ JudgeUnanswered' =>
                /\ attempt'.analysis = _basic_result_analysis(attempt'.result)
                /\ ~attempt'.result.success =>
                      /\ attempt'.analysis.is_valid = FALSE
                      /\ attempt'.analysis.needs_retry = TRUE]_vars

C27_Witness ==
    /\ JudgeUnanswered
    /\ fault = Fault("judge", ExcLLM)
    /\ ~attempt.result.success
    /\ attempt.analysis.needs_retry
    /\ ~attempt.analysis.is_valid
    /\ state.sql_execution_result.analysis = attempt.analysis

\* the adapter reported success and the verdict of the judge is valid
Accepted ==
    /\ attempt.judged
    /\ attempt.result.success
    /\ Get(attempt.analysis, "is_valid", FALSE)

\* C28: the executor sets COMPLETED if and only if the adapter reported
\* success and the verdict has is_valid true, whatever needs_retry says;
\* final_sql is then the SQL that passed the gate and was executed,
\* execution_data the rows returned, and retry_count is unchanged.
C28_CompletedIffSuccessAndValid ==
    [][pc = "sql_executor" =>
          /\ (state'.current_step = COMPLETED) <=> Accepted'
          /\ Accepted' =>
                /\ attempt'.gate_safe
                /\ state'.final_sql = attempt'.gate_sql
                /\ state'.final_sql = attempt'.executed
                /\ state'.execution_data = attempt'.result.data
                /\ state'.retry_count = state.retry_count]_vars

C28_Witness ==
    /\ pc = "END"
    /\ Accepted
    /\ Get(attempt.analysis, "needs_retry", FALSE)
    /\ state.current_step = COMPLETED
    /\ state.final_sql = attempt.executed
    /\ state.execution_data = Rows(1)
    /\ state.retry_count = attempt.retry_before

\* the model answered the stage with text that holds no structured object
StageUnparsed ==
    /\ invoked = 1
    /\ ~llm_reply.raises
    /\ IsJsonError(llm_reply.json)

\* C29: when the model's text for the Schema Resolver or the Plan Builder
\* holds no extractable object, the stage does not raise: it stores a
\* fallback object with a diagnostic note (an empty resolution, a one-step
\* plan holding the parse error), sets ERROR with a non-empty message, and
\* no later stage handler runs.
C29_UnparsedStageReplyEndsInError ==
    /\ [][(pc \in {"schema_analyst", "query_planner"} /\ StageUnparsed') =>
             /\ fault' = NoFault
             /\ state'.current_step = ERROR
             /\ Truthy(state'.error_message)
             /\ pc' = "error_handler"
             /\ pc = "schema_analyst" =>
                   /\ state'.schema_analysis.relevant_tables = <<>>
                   /\ Truthy(state'.schema_analysis.analysis_notes)
             /\ pc = "query_planner" =>
                   /\ Len(state'.query_plan.query_steps) = 1
                   /\ Contains(state'.query_plan.query_steps[1], "parse error")]_vars
    /\ [][(pc \in {"error_handler", "END", "done"}) => pc' \notin StageNodes]_vars

C29_Witness ==
    /\ Converting
    /\ pc = "END"
    /\ state.current_step = ERROR
    /\ ~IsNoneObj(state.schema_analysis)
    /\ ~IsNoneObj(state.query_plan)
    /\ Len(state.query_plan.query_steps) = 1
    /\ Contains(state.query_plan.query_steps[1], "parse error")
    /\ Contains(state.error_message, "parse failed")
    /\ IsNoneObj(state.sql_result)
    /\ Len(state.agent_interactions) = 2

\* C30: the pipeline never continues past the Schema Resolver with no
\* tables: a resolution with an empty table list ends in ERROR without
\* entering the Plan Builder, and the Plan Builder is entered only with a
\* resolution of at least one table.
C30_NoPlanningWithoutTables ==
    [][pc = "schema_analyst" =>
          /\ (/\ ~IsNoneObj(state'.schema_analysis)
              /\ state'.schema_analysis.relevant_tables = <<>>) =>
                (state'.current_step = ERROR /\ pc' # "query_planner")
          /\ (state'.current_step = QUERY_PLANNING \/ pc' = "query_planner") =>
                Len(state'.schema_analysis.relevant_tables) >= 1]_vars

SynthesisKeywords == {"SELECT", "WITH", "INSERT", "UPDATE", "DELETE"}

BeginsWithKeyword(line) ==
    \E keyword \in SynthesisKeywords : StartsWith(Upper(Strip(line)), keyword)

\* the lines from the first one that begins with a keyword to the first
\* following one (inclusive) that ends with ';', or to the last line
KeywordSpan(content) ==
    LET lines  == SplitLines(content)
        starts == {i \in 1..Len(lines) : BeginsWithKeyword(lines[i])}
    IN  IF starts = {} THEN <<>>
        ELSE LET first == CHOOSE i \in starts : \A j \in starts : i <= j
                 ends  == {i \in first..Len(lines) : EndsWith(Strip(lines[i]), ";")}
                 last  == IF ends = {} THEN Len(lines)
                          ELSE CHOOSE i \in ends : \A j \in ends : i <= j
             IN  [i \in 1..(last - first + 1) |-> Strip(lines[first + i - 1])]

\* C31: when structured extraction fails in the Query Synthesizer, the
\* fallback query is the span of reply lines from the first line that
\* begins with SELECT, WITH, INSERT, UPDATE or DELETE to the first
\* following line that ends with ';'; a line that only contains a keyword
\* elsewhere does not start the span.
C31_FallbackSpanStartsAtKeywordLine ==
    [][(pc = "sql_developer" /\ StageUnparsed') =>
          state'.sql_result.sql_query = Join("\n", KeywordSpan(llm_reply'.content))]_vars

\* C32: the Query Synthesizer never hands an empty query to validation:
\* when it leaves the stage at QUALITY_VALIDATION, sql_result.sql_query is
\* non-empty after trimming; when the structured extraction and the line
\* scan both yield nothing the stage is ERROR with a non-empty message.
C32_NoEmptyQueryToValidation ==
    [][pc = "sql_developer" =>
          /\ state'.current_step = QUALITY_VALIDATION =>
                /\ ~IsNoneObj(state'.sql_result)
                /\ Strip(state'.sql_result.sql_query) # ""
          /\ (/\ invoked' = 1
              /\ ~llm_reply'.raises
              /\ IsJsonError(llm_reply'.json)
                    \/ Strip(Get(llm_reply'.json, "sql_query", "")) = ""
              /\ state'.sql_result.sql_query = "") =>
                /\ state'.current_step = ERROR
                /\ Truthy(state'.error_message)
                /\ pc' = "error_handler"]_vars

C32_Witness ==
    /\ Converting
    /\ pc = "error_handler"
    /\ invoked = 1
    /\ ~llm_reply.raises
    /\ ~IsJsonError(llm_reply.json)
    /\ ~IsNoneObj(state.sql_result)
    /\ state.sql_result.sql_query = ""
    /\ state.current_step = ERROR
    /\ Contains(state.error_message, ExcEmptySql)
    /\ Len(state.agent_interactions) = 3

\* C33: once the Schema Resolver has stored its resolution and the Plan
\* Builder its plan, no later step changes either: the Query Synthesizer,
\* the Static Validator, the executor and the error handler, in every
\* regeneration cycle, leave schema_analysis and query_plan unchanged.
C33_ResolutionAndPlanAreFrozen ==
    [][(pc \in {"sql_developer", "quality_validator", "sql_executor", "error_handler"}) =>
          /\ state'.schema_analysis = state.schema_analysis
          /\ state'.query_plan = state.query_plan]_vars

C33_Witness ==
    /\ pc = "quality_validator"
    /\ state.retry_count > 0
    /\ attempt.judged
    /\ ~IsNoneObj(state.schema_analysis)
    /\ ~IsNoneObj(state.query_plan)
    /\ Len(state.schema_analysis.relevant_tables) > 0
    /\ Len(state.query_plan.query_steps) > 0

\* C34: a synthesized query that fails the referential check is treated
\* as a validation error: the validator asks the model for one correction
\* and, if the defect remains in the final SQL, the run ends in ERROR
\* carrying the defect; such a query is never passed on as valid.
C34_UnknownTableIsAValidationError ==
    [][(/\ pc = "quality_validator"
        /\ ~IsNoneObj(state.sql_result)
        /\ Truthy(state.sql_result.sql_query)
        /\ Len(_check_table_column_references(state.sql_result.sql_query)) > 0) =>
          /\ invoked' = 1
          /\ (/\ ~IsNoneObj(state'.validation_result)
              /\ Len(_check_table_column_references(state'.validation_result.final_sql)) > 0) =>
                /\ ~state'.validation_result.is_valid
                /\ state'.current_step = ERROR
                /\ \A i \in 1..Len(state'.validation_result.logic_warnings) :
                      Contains(state'.error_message, state'.validation_result.logic_warnings[i])]_vars

\* the calls that have not returned
InProgress == {t \in DOMAIN tasks : tasks[t].pc # "done"}

\* caller t has passed _ensure_connection and has not returned
UsesTunnel(t) ==
    tasks[t].pc \in {"tunnel.start", "pymysql.connect", "queued", "_execute_sync_query"}

\* C35: whenever no call is in progress the tunnel and the connection are
\* both established or both absent, and when several queries make their
\* first use concurrently no call replaces or tears down the tunnel that
\* another call is using.
C35_ConnectionLifecycle ==
    [][entry = "execute_query" =>
          /\ InProgress' = {} =>
                (db_connection'.tunnel = None <=> db_connection'.connection = None)
          /\ (\E t \in Callers :
                 /\ tasks'[t] # tasks[t]
                 /\ \E u \in Callers \ {t} : UsesTunnel(u)) =>
                db_connection'.tunnel = db_connection.tunnel]_vars

\* C36: two runs on one orchestrator never share a checkpoint thread id,
\* runs that start within the same second included.
C36_ThreadIdsAreDistinct ==
    \A t, u \in DOMAIN tasks :
        (/\ entry = "convert_text_to_sql"
         /\ t # u
         /\ tasks[t].thread_id # None
         /\ tasks[u].thread_id # None) =>
            tasks[t].thread_id # tasks[u].thread_id

\* C37: a run ends with the budget-exceeded message if and only if its
\* last execution attempt was refused a retry by the ceiling: the verdict
\* asked for a retry while retry_count was 20.  A last attempt whose
\* verdict does not ask for a retry ends with the execution error text or
\* the generic message, whatever retry_count is.
C37_BudgetMessageIffRetryRefused ==
    [][(/\ pc = "sql_executor"
        /\ attempt'.judged
        /\ state'.current_step = ERROR) =>
          /\ (state'.error_message = MsgBudget) <=>
                (/\ Get(attempt'.analysis, "needs_retry", FALSE)
                 /\ state.retry_count = MaxRetries)
          /\ ~Get(attempt'.analysis, "needs_retry", FALSE) =>
                state'.error_message \in
                    {ErrorText(attempt'.result), MsgInvalidResult} \ {""}]_vars

\* the node steps of the longest run: the two first stages, 21 cycles of
\* synthesis, validation and execution, and the error handler
LongestRun == 2 + 3 * (MaxRetries + 1) + 1

TableInfoReturned == entry = "get_table_info" /\ tasks[1].pc = "done"

\* C39: for a table that exists in the database and a reachable
\* connection, get_table_info returns exists = true with the table's
\* column names and primary key; exists = false is returned only when the
\* table is absent or the lookup fails at the transport.
C39_ExistingTableIsDescribed ==
    TableInfoReturned =>
        /\ (tasks[1].reachable /\ tasks[1].table_name \in tasks[1].tables) =>
              /\ tasks[1].result.exists
              /\ tasks[1].result.columns = Fields(DescribeRows(tasks[1].table_name))
              /\ tasks[1].result.primary_key = "id"
        /\ ~tasks[1].result.exists =>
              (~tasks[1].reachable \/ tasks[1].table_name \notin tasks[1].tables)

\* C40: with SQL execution disabled the graph has no executor node: a
\* valid validation outcome ends the run in COMPLETED with final SQL equal
\* to the validator's final SQL and a success response, an invalid one
\* ends it in ERROR, and the Safety Gate is not consulted, the adapter not
\* called and retry_count not changed.
C40_ValidationEndsTheRunWhenExecutionIsDisabled ==
    [][~enable_sql_execution =>
          /\ pc' # "sql_executor"
          /\ gate' = NoGate
          /\ ~attempt'.called
          /\ state'.retry_count = 0
          /\ (pc = "quality_validator" /\ ~IsNoneObj(state'.validation_result)) =>
                IF state'.validation_result.is_valid
                THEN /\ state'.current_step = COMPLETED
                     /\ state'.final_sql = state'.validation_result.final_sql
                     /\ pc' = "END"
                ELSE /\ state'.current_step = ERROR
                     /\ pc' = "error_handler"
          /\ (/\ pc = "END"
              /\ fault' = NoFault
              /\ ~IsNoneObj(state.validation_result)
              /\ state.validation_result.is_valid) =>
                /\ response'.success
                /\ response'.sql_query = state.validation_result.final_sql
          /\ (pc = "END" /\ state.current_step = ERROR) => ~response'.success]_vars

====
